---- MODULE Spec2Model ----
(***************************************************************************)
(* usereport-rs: the execution engine.                                     *)
(*                                                                         *)
(* One invocation of ThreadRunner::run (src/src/runner.rs) on behalf of    *)
(* Analysis::run_commands (src/src/analysis.rs), with one worker thread    *)
(* per command, each running Command::exec (src/src/command.rs) on its     *)
(* own child process.  The operating system (process exit, failing system  *)
(* calls, failing thread creation) and the holder of the progress          *)
(* receiver are the environment.                                           *)
(*                                                                         *)
(* Analysis::run (src/src/analysis.rs) is modelled on top of it with each  *)
(* invocation of the runner taken as a whole: SpecAnalysis.                *)
(***************************************************************************)
EXTENDS Integers, Sequences, FiniteSets, TLC

\* Largest number of commands handed to one runner invocation.
MaxCmds == 2

VARIABLES
    commands,               \* ThreadRunner.commands: the input list
    max_parallel_commands,  \* Analysis.max_parallel_commands, passed to the runner
    progress_tx,            \* ThreadRunner.progress_tx: TRUE for Some(sender)
    rpc,                    \* position of the thread that called run
    children,               \* number of JoinHandles pushed by create_children
    joined,                 \* number of JoinHandles joined by wait_for_results
    channel,                \* results sent on tx and not yet received on rx
    rx_alive,               \* the result Receiver has not been dropped
    results,                \* the Vec built by wait_for_results
    wpc,                    \* position of each worker thread
    child,                  \* state of each command's child process
    status,                 \* exit status of each child process
    wait,                   \* the value `wait` of each exec call
    res,                    \* the CommandResult each exec call returned
    evlog,                  \* what each exec call and worker closure did, in order
    panic_msg,              \* the message a worker thread panicked with
    progress_q,             \* progress units sent and not yet received
    progress_rx_alive,      \* the progress Receiver has not been dropped
    ret,                    \* what ThreadRunner::run returned
    apc,                    \* position of the thread that called Analysis::run
    context,                \* the Context passed to Analysis::run
    hostinfos,              \* Analysis.hostinfos
    analysis_commands,      \* Analysis.commands
    repetitions,            \* Analysis.repetitions
    hostinfo_results,       \* the local hostinfo_results of Analysis::run
    command_results,        \* the Vec `results` built by run_commands_rep
    calls,                  \* every invocation of the runner so far, in order
    report,                 \* what Analysis::run returned
    cpc,                    \* position of the thread that called cli::main
    opt,                    \* the command-line options, Opt
    toml,                   \* the configuration document that is loaded
    config,                 \* the Config made of it
    cli_ret,                \* what cli::main returned
    line,                   \* the command line Command::args is called on
    argv,                   \* what Command::args returned
    pb_pc,                  \* position of the thread "Progress" of create_progress_bar
    pb_expected,            \* the units that thread is to receive
    pb_received,            \* the units it has received
    pb_q,                   \* the units in its channel
    pb_sent,                \* the units sent on its channel so far
    tpc,                    \* position of an exec whose times are followed
    clock,                  \* what Local::now() reads, in milliseconds
    instant,                \* the time that has passed, in milliseconds
    exec_timeout_sec,       \* the timeout_sec of the command of that exec
    start_time,             \* its start_time
    wait_began,             \* the instant at which it called wait_timeout
    run_time_ms,            \* its run_time_ms
    time_res                \* the kind of the result it returned

vars == <<commands, max_parallel_commands, progress_tx, rpc, children, joined,
          channel, rx_alive, results, wpc, child, status, wait, res, evlog,
          panic_msg, progress_q, progress_rx_alive, ret, apc, context, hostinfos,
          analysis_commands, repetitions, hostinfo_results, command_results,
          calls, report, cpc, opt, toml, config, cli_ret, line, argv,
          pb_pc, pb_expected, pb_received, pb_q, pb_sent,
          tpc, clock, instant, exec_timeout_sec, start_time, wait_began, run_time_ms,
          time_res>>

\* The clocks and the times of an exec.
time_vars == <<tpc, clock, instant, exec_timeout_sec, start_time, wait_began,
               run_time_ms, time_res>>

\* The state of the progress bar of cli::create_progress_bar.
pb_vars == <<pb_pc, pb_expected, pb_received, pb_q, pb_sent>>

\* The state of a call of Command::args.
args_vars == <<line, argv>>

\* The state of cli::main.
cli_vars == <<cpc, opt, toml, config, cli_ret>>

\* The state of Analysis::run.
analysis_vars == <<apc, context, hostinfos, analysis_commands, repetitions,
                   hostinfo_results, command_results, calls, report>>

N == Len(commands)

Workers == 1..N

NoResult == [kind |-> "NoResult"]

\* Option<ExitStatus>: None, and Some(s) as <<s>>.
NoStatus == <<>>

\* Exit statuses a child process ends with: 0, or non-zero.
ExitStatuses == {0, 1}

RangeOf(s) == {s[k] : k \in 1..Len(s)}

-----------------------------------------------------------------------------
(* Command and CommandResult *)

\* A command: its name is its position in the configured set; quotes_ok says
\* whether its command line has matching quotes.
Command(name, quotes_ok) ==
    [name |-> name, command |-> IF quotes_ok THEN "wellformed" ELSE "mismatched",
     timeout_sec |-> "Some"]

\* args taking every command line for well-formed.
args_unchecked(self) == "Ok"

\* shellwords::split fails exactly on mismatched quotes.
args(self) == IF self.command = "mismatched" THEN "Err" ELSE "Ok"

\* The errors of the operating system, each with its message.
IoError(what) == [msg |-> what]

\* What Popen::create fails with for an executable that does not exist.
SpawnError == IoError("No such file or directory")

\* What read_to_string fails with on bytes that are not valid UTF-8.
InvalidUtf8 == IoError("stream did not contain valid UTF-8")

to_string(err) == err.msg

\* fail with the cause's message lost.
fail_without_cause(self, reason) ==
    [kind |-> "Error", command |-> self, reason |-> "unknown"]

fail(self, reason) ==
    [kind |-> "Error", command |-> self, reason |-> to_string(reason)]

Success(self) ==
    [kind |-> "Success", command |-> self, run_time_ms |-> "elapsed", stdout |-> "captured"]

Failed(self) ==
    [kind |-> "Failed", command |-> self, run_time_ms |-> "elapsed", stdout |-> "captured"]

Timeout(self) ==
    [kind |-> "Timeout", command |-> self, run_time_ms |-> "elapsed"]

Error(self, err) ==
    [kind |-> "Error", command |-> self, reason |-> to_string(err)]

\* A Result: Ok(value), Err(error); NoReturn while the call has not returned.
Ok(v) == [tag |-> "Ok", val |-> v]

Err(e) == [tag |-> "Err", err |-> e]

NoReturn == [tag |-> "NoReturn"]

\* No Context: Analysis::run has not been called.
NoContext == "none"

\* runner::Error::CommandFailed, with the io::Error of thread creation.
CommandFailed(name) ==
    [error |-> "CommandFailed", name |-> name, source |-> "thread creation: os error"]

\* status.success()
success(s) == s[1] = 0

\* The two arms of exec for a child that exited, with the guard negated.
exited_result_negated(self, s) == IF success(s) THEN Failed(self) ELSE Success(self)

\* The two arms of exec for a child that exited, once its output is read.
exited_result(self, s) == IF success(s) THEN Success(self) ELSE Failed(self)

-----------------------------------------------------------------------------
\* No times of an exec are followed.
TimeIdle ==
    /\ tpc = "idle"
    /\ clock = 0
    /\ instant = 0
    /\ exec_timeout_sec = <<>>
    /\ start_time = <<>>
    /\ wait_began = 0
    /\ run_time_ms = <<>>
    /\ time_res = "none"

\* No progress bar exists.
NoProgressBar ==
    /\ pb_pc = "none"
    /\ pb_expected = 0
    /\ pb_received = 0
    /\ pb_q = 0
    /\ pb_sent = 0

\* Command::args is not being called.
ArgsIdle ==
    /\ line = <<>>
    /\ argv = NoReturn

\* cli::main is not running.
CliIdle ==
    /\ cpc = "idle"
    /\ opt = <<>>
    /\ toml = <<>>
    /\ config = <<>>
    /\ cli_ret = NoReturn

\* A ThreadRunner built with its commands and run on its own, as the test
\* run_ok does: no Analysis and no cli::main is running.
Init ==
    /\ \E n \in 0..MaxCmds :
         \E q \in [1..n -> BOOLEAN] :
            commands = [k \in 1..n |-> Command(k, q[k])]
    /\ max_parallel_commands \in 1..MaxCmds
    /\ progress_tx \in BOOLEAN
    /\ rpc = "create_children"
    /\ children = 0
    /\ joined = 0
    /\ channel = <<>>
    /\ rx_alive = TRUE
    /\ results = <<>>
    /\ wpc = [i \in Workers |-> "unspawned"]
    /\ child = [i \in Workers |-> "none"]
    /\ status = [i \in Workers |-> NoStatus]
    /\ wait = [i \in Workers |-> "unset"]
    /\ res = [i \in Workers |-> NoResult]
    /\ evlog = [i \in Workers |-> <<>>]
    /\ panic_msg = [i \in Workers |-> "none"]
    /\ progress_q = 0
    /\ progress_rx_alive = TRUE
    /\ ret = NoReturn
    /\ apc = "idle"
    /\ context = NoContext
    /\ hostinfos = <<>>
    /\ analysis_commands = <<>>
    /\ repetitions = 0
    /\ hostinfo_results = <<>>
    /\ command_results = <<>>
    /\ calls = <<>>
    /\ report = NoReturn
    /\ CliIdle
    /\ ArgsIdle
    /\ NoProgressBar
    /\ TimeIdle

-----------------------------------------------------------------------------
(* ThreadRunner::run, on the thread that called it *)

\* Result senders still alive: the tx of create_children until it returns, and
\* the clone held by every worker thread that has not ended.
SendersAlive ==
    \/ rpc = "create_children"
    \/ \E i \in Workers : wpc[i] \notin {"unspawned", "spawn_failed", "done", "panicked"}

\* One turn of the loop of create_children: thread::Builder::spawn for the next
\* command succeeds and its JoinHandle is pushed.
create_child ==
    /\ rpc = "create_children"
    /\ children < N
    /\ children' = children + 1
    /\ wpc' = [wpc EXCEPT ![children + 1] = "exec"]
    /\ UNCHANGED <<pb_vars, time_vars, args_vars, cli_vars, analysis_vars, ret, commands, max_parallel_commands, progress_tx, rpc, joined,
                   channel, rx_alive, results, child, status, wait, res, evlog,
                   panic_msg, progress_q, progress_rx_alive>>

\* create_child_failed with the error swallowed: the loop of create_children
\* ends at the failing spawn and run returns what it has, an empty list.
create_child_failed_swallowed ==
    /\ rpc = "create_children"
    /\ children < N
    /\ wpc' = [wpc EXCEPT ![children + 1] = "spawn_failed"]
    /\ rpc' = "returned_ok"
    /\ ret' = Ok(results)
    /\ rx_alive' = FALSE
    /\ channel' = <<>>
    /\ UNCHANGED <<pb_vars, time_vars, args_vars, cli_vars, analysis_vars, commands, max_parallel_commands, progress_tx,
                   children, joined, results, child, status, wait, res, evlog,
                   panic_msg, progress_q, progress_rx_alive>>

\* thread::Builder::spawn fails: context(CommandFailed { name }) wraps the error
\* with the name of the command, and `?` returns it from create_children and
\* from run; tx, rx and the JoinHandles pushed so far are dropped.
create_child_failed ==
    /\ rpc = "create_children"
    /\ children < N
    /\ wpc' = [wpc EXCEPT ![children + 1] = "spawn_failed"]
    /\ rpc' = "returned_err"
    /\ ret' = Err(CommandFailed(commands[children + 1].name))
    /\ rx_alive' = FALSE
    /\ channel' = <<>>
    /\ UNCHANGED <<pb_vars, time_vars, args_vars, cli_vars, analysis_vars, commands, max_parallel_commands, progress_tx,
                   children, joined, results, child, status, wait, res, evlog,
                   panic_msg, progress_q, progress_rx_alive>>

\* The loop of create_children is over: Ok((children, rx)), tx is dropped, and
\* run calls wait_for_results.
create_children ==
    /\ rpc = "create_children"
    /\ children = N
    /\ rpc' = "wait_for_results"
    /\ UNCHANGED <<pb_vars, time_vars, args_vars, cli_vars, analysis_vars, ret, commands, max_parallel_commands, progress_tx, children, joined,
                   channel, rx_alive, results, wpc, child, status, wait, res, evlog,
                   panic_msg, progress_q, progress_rx_alive>>

\* One turn of the first loop of wait_for_results: rx.recv() blocks until a
\* result is there and pushes it; with every sender gone it is an Err and
\* expect panics.
wait_for_results_recv ==
    /\ rpc = "wait_for_results"
    /\ Len(results) < children
    /\ IF channel # <<>>
         THEN /\ results' = Append(results, Head(channel))
              /\ channel' = Tail(channel)
              /\ UNCHANGED <<rpc, rx_alive>>
         ELSE /\ ~SendersAlive
              /\ rpc' = "panicked"
              /\ rx_alive' = FALSE
              /\ UNCHANGED <<results, channel>>
    /\ UNCHANGED <<pb_vars, time_vars, args_vars, cli_vars, analysis_vars, ret, commands, max_parallel_commands, progress_tx, children, joined,
                   wpc, child, status, wait, res, evlog, panic_msg, progress_q,
                   progress_rx_alive>>

\* One turn of the second loop of wait_for_results: child.join() blocks until
\* the worker thread has ended; for a worker that panicked it is an Err and
\* expect panics.
wait_for_results_join ==
    /\ rpc = "wait_for_results"
    /\ Len(results) = children
    /\ joined < children
    /\ wpc[joined + 1] \in {"done", "panicked"}
    /\ IF wpc[joined + 1] = "done"
         THEN /\ joined' = joined + 1
              /\ UNCHANGED <<rpc, rx_alive, channel>>
         ELSE /\ rpc' = "panicked"
              /\ rx_alive' = FALSE
              /\ channel' = <<>>
              /\ UNCHANGED joined
    /\ UNCHANGED <<pb_vars, time_vars, args_vars, cli_vars, analysis_vars, ret, commands, max_parallel_commands, progress_tx, children, results,
                   wpc, child, status, wait, res, evlog, panic_msg, progress_q,
                   progress_rx_alive>>

\* run returning as soon as every result is received, the joins left out.
run_without_join ==
    /\ rpc = "wait_for_results"
    /\ Len(results) = children
    /\ rpc' = "returned_ok"
    /\ ret' = Ok(results)
    /\ rx_alive' = FALSE
    /\ UNCHANGED <<pb_vars, time_vars, args_vars, cli_vars, analysis_vars, commands, max_parallel_commands, progress_tx,
                   children, joined, channel, results, wpc, child, status, wait,
                   res, evlog, panic_msg, progress_q, progress_rx_alive>>

\* run returning only once wait_for_results has received a result.
run_after_a_result ==
    /\ rpc = "wait_for_results"
    /\ results # <<>>
    /\ Len(results) = children
    /\ joined = children
    /\ rpc' = "returned_ok"
    /\ ret' = Ok(results)
    /\ rx_alive' = FALSE
    /\ UNCHANGED <<pb_vars, time_vars, args_vars, cli_vars, analysis_vars, commands, max_parallel_commands, progress_tx, children, joined,
                   channel, results, wpc, child, status, wait, res, evlog,
                   panic_msg, progress_q, progress_rx_alive>>

\* wait_for_results returns the Vec and run returns Ok(results); rx is dropped.
run ==
    /\ rpc = "wait_for_results"
    /\ Len(results) = children
    /\ joined = children
    /\ rpc' = "returned_ok"
    /\ ret' = Ok(results)
    /\ rx_alive' = FALSE
    /\ UNCHANGED <<pb_vars, time_vars, args_vars, cli_vars, analysis_vars, commands, max_parallel_commands, progress_tx, children, joined,
                   channel, results, wpc, child, status, wait, res, evlog,
                   panic_msg, progress_q, progress_rx_alive>>

-----------------------------------------------------------------------------
(* Command::exec, on the worker thread of command i *)

Log(i, es) == [evlog EXCEPT ![i] = @ \o es]

\* Return handing the thread on to the progress send at once, the send of the
\* result left out.
Return_without_result_send(i, r) ==
    /\ res' = [res EXCEPT ![i] = r]
    /\ wpc' = [wpc EXCEPT ![i] = "progress"]

\* exec returns r: the closure of create_child goes on to tx.send(res).
Return(i, r) ==
    /\ res' = [res EXCEPT ![i] = r]
    /\ wpc' = [wpc EXCEPT ![i] = "send"]

\* exec up to Popen::create: the command line is split, the capture file is
\* created and the child process is spawned; each of the three can fail, and
\* exec then returns self.fail(..).
exec_spawn(i) ==
    /\ wpc[i] = "exec"
    /\ IF args(commands[i]) = "Err"
         THEN /\ Return(i, fail(commands[i], IoError("failed to split command into arguments")))
              /\ evlog' = Log(i, <<"split_err">>)
              /\ UNCHANGED child
         ELSE \/ /\ Return(i, fail(commands[i], IoError("tempfile: os error")))
                 /\ evlog' = Log(i, <<"tempfile_err">>)
                 /\ UNCHANGED child
              \/ /\ Return(i, fail(commands[i], SpawnError))
                 /\ evlog' = Log(i, <<"spawn_err">>)
                 /\ UNCHANGED child
              \/ /\ child' = [child EXCEPT ![i] = "running"]
                 /\ wpc' = [wpc EXCEPT ![i] = "wait_timeout"]
                 /\ evlog' = Log(i, <<"spawned">>)
                 /\ UNCHANGED res
    /\ UNCHANGED <<pb_vars, time_vars, args_vars, cli_vars, analysis_vars, ret, commands, max_parallel_commands, progress_tx, rpc, children,
                   joined, channel, rx_alive, results, status, wait, panic_msg,
                   progress_q, progress_rx_alive>>

\* The child process ends by itself, with exit status s, while exec waits for
\* it or is about to kill it.
child_exit(i, s) ==
    /\ child[i] = "running"
    /\ wpc[i] \in {"wait_timeout", "terminate"}
    /\ child' = [child EXCEPT ![i] = "exited"]
    /\ status' = [status EXCEPT ![i] = <<s>>]
    /\ UNCHANGED <<pb_vars, time_vars, args_vars, cli_vars, analysis_vars, ret, commands, max_parallel_commands, progress_tx, rpc, children,
                   joined, channel, rx_alive, results, wpc, wait, res, evlog,
                   panic_msg, progress_q, progress_rx_alive>>

\* exec from p.wait_timeout(timeout) to the end of the match on `wait`, short
\* of the call of terminate.  wait_timeout returns Ok(Some(status)) for a child
\* that exited, which it reaps, Ok(None) when the deadline passed with the child
\* still running, or Err; run_time_ms is taken right after.  A failing seek of
\* the capture file then returns self.fail(err) before the match.  The two arms
\* of an exited child read the capture with read_to_string and return Success
\* or Failed, or self.fail(err) when the read fails or the captured bytes are
\* not valid UTF-8; the arms Ok(None) and Err call terminate.
exec_wait_timeout(i) ==
    /\ wpc[i] = "wait_timeout"
    /\ \E w \in {"Some", "None", "Err"} :
         /\ w = "Some" => child[i] = "exited"
         /\ w = "None" => child[i] = "running"
         /\ wait' = [wait EXCEPT ![i] = w]
         /\ child' = [child EXCEPT ![i] = IF w = "Some" THEN "reaped" ELSE @]
         /\ \/ /\ Return(i, fail(commands[i], IoError("seek: os error")))
               /\ evlog' = Log(i, <<w, "seek_err">>)
            \/ /\ w = "Some"
               /\ \/ /\ Return(i, exited_result(commands[i], status[i]))
                     /\ evlog' = Log(i, <<w, "captured">>)
                  \/ /\ Return(i, fail(commands[i], IoError("read: os error")))
                     /\ evlog' = Log(i, <<w, "read_err">>)
                  \/ /\ Return(i, fail(commands[i], InvalidUtf8))
                     /\ evlog' = Log(i, <<w, "invalid_utf8">>)
            \/ /\ w \in {"None", "Err"}
               /\ wpc' = [wpc EXCEPT ![i] = "terminate"]
               /\ evlog' = Log(i, <<w>>)
               /\ UNCHANGED res
    /\ UNCHANGED <<pb_vars, time_vars, args_vars, cli_vars, analysis_vars, ret, commands, max_parallel_commands, progress_tx, rpc, children,
                   joined, channel, rx_alive, results, status, panic_msg,
                   progress_q, progress_rx_alive>>

\* The worker thread panics with msg: it unwinds and ends, and its sender is
\* dropped.
Panic(i, msg) ==
    /\ wpc' = [wpc EXCEPT ![i] = "panicked"]
    /\ panic_msg' = [panic_msg EXCEPT ![i] = msg]

\* The arm of exec that called terminate, after it.
terminated_result(self, w) ==
    IF w = "None" THEN Timeout(self) ELSE Error(self, IoError("wait_timeout: os error"))

\* terminate and the rest of the arm that called it.  p.kill() sends the kill
\* to a child still running (a child that exited meanwhile is left as it is);
\* p.wait() then reaps the child, and exec returns Timeout (after Ok(None)) or
\* Error (after Err).  A failing kill panics, and so does a failing wait.
terminate(i) ==
    /\ wpc[i] = "terminate"
    /\ \/ /\ Panic(i, "failed to kill command")
          /\ evlog' = Log(i, <<"kill_err">>)
          /\ UNCHANGED <<child, res>>
       \/ /\ Panic(i, "failed to wait for command to finish")
          /\ child' = [child EXCEPT ![i] = IF @ = "running" THEN "killed" ELSE @]
          /\ evlog' = Log(i, <<"kill", "reap_err">>)
          /\ UNCHANGED res
       \/ /\ child' = [child EXCEPT ![i] = "reaped"]
          /\ Return(i, terminated_result(commands[i], wait[i]))
          /\ evlog' = Log(i, <<"kill", "reap", "result">>)
          /\ UNCHANGED panic_msg
    /\ UNCHANGED <<pb_vars, time_vars, args_vars, cli_vars, analysis_vars, ret, commands, max_parallel_commands, progress_tx, rpc, children,
                   joined, channel, rx_alive, results, status, wait,
                   progress_q, progress_rx_alive>>

-----------------------------------------------------------------------------
(* The closure of create_child after exec, on the worker thread of command i *)

\* tx.send(res): the result goes into the channel; with the receiver dropped it
\* is an Err and expect panics.  Without a progress sender the thread ends.
send_result(i) ==
    /\ wpc[i] = "send"
    /\ IF rx_alive
         THEN /\ channel' = Append(channel, res[i])
              /\ wpc' = [wpc EXCEPT ![i] = IF progress_tx THEN "progress" ELSE "done"]
              /\ evlog' = Log(i, <<"result_sent">>)
              /\ UNCHANGED panic_msg
         ELSE /\ Panic(i, "Thread failed to send result via channel")
              /\ evlog' = Log(i, <<"result_disconnected">>)
              /\ UNCHANGED channel
    /\ UNCHANGED <<pb_vars, time_vars, args_vars, cli_vars, analysis_vars, ret, commands, max_parallel_commands, progress_tx, rpc, children,
                   joined, rx_alive, results, child, status, wait, res,
                   progress_q, progress_rx_alive>>

\* send_progress sending the unit only for a command that did not end as Error.
send_progress_unless_error(i) ==
    /\ wpc[i] = "progress"
    /\ IF res[i].kind = "Error"
         THEN /\ wpc' = [wpc EXCEPT ![i] = "done"]
              /\ UNCHANGED <<progress_q, evlog, panic_msg>>
         ELSE IF progress_rx_alive
                THEN /\ progress_q' = progress_q + 1
                     /\ wpc' = [wpc EXCEPT ![i] = "done"]
                     /\ evlog' = Log(i, <<"progress_sent">>)
                     /\ UNCHANGED panic_msg
                ELSE /\ Panic(i, "Thread failed to send progress via channel")
                     /\ evlog' = Log(i, <<"progress_disconnected">>)
                     /\ UNCHANGED progress_q
    /\ UNCHANGED <<pb_vars, time_vars, args_vars, cli_vars, analysis_vars, ret, commands, max_parallel_commands, progress_tx,
                   rpc, children, joined, channel, rx_alive, results, child, status,
                   wait, res, progress_rx_alive>>

\* send_progress with the Err of the send ignored: the thread ends normally.
send_progress_ignoring_disconnect(i) ==
    /\ wpc[i] = "progress"
    /\ wpc' = [wpc EXCEPT ![i] = "done"]
    /\ IF progress_rx_alive
         THEN /\ progress_q' = progress_q + 1
              /\ evlog' = Log(i, <<"progress_sent">>)
         ELSE /\ evlog' = Log(i, <<"progress_disconnected">>)
              /\ UNCHANGED progress_q
    /\ UNCHANGED <<pb_vars, time_vars, args_vars, cli_vars, analysis_vars, ret, commands, max_parallel_commands, progress_tx,
                   rpc, children, joined, channel, rx_alive, results, child, status,
                   wait, res, panic_msg, progress_rx_alive>>

\* send_progress on a rendezvous channel whose consumer is not receiving: the
\* send blocks for as long as the receiver is alive.
send_progress_rendezvous(i) ==
    /\ wpc[i] = "progress"
    /\ ~progress_rx_alive
    /\ Panic(i, "Thread failed to send progress via channel")
    /\ evlog' = Log(i, <<"progress_disconnected">>)
    /\ UNCHANGED <<pb_vars, time_vars, args_vars, cli_vars, analysis_vars, ret, commands, max_parallel_commands, progress_tx,
                   rpc, children, joined, channel, rx_alive, results, child, status,
                   wait, res, progress_q, progress_rx_alive>>

\* progress_tx.send(1): one unit goes into the progress channel and the thread
\* ends; with the progress receiver dropped it is an Err and expect panics.
send_progress(i) ==
    /\ wpc[i] = "progress"
    /\ IF progress_rx_alive
         THEN /\ progress_q' = progress_q + 1
              /\ wpc' = [wpc EXCEPT ![i] = "done"]
              /\ evlog' = Log(i, <<"progress_sent">>)
              /\ UNCHANGED panic_msg
         ELSE /\ Panic(i, "Thread failed to send progress via channel")
              /\ evlog' = Log(i, <<"progress_disconnected">>)
              /\ UNCHANGED progress_q
    /\ UNCHANGED <<pb_vars, time_vars, args_vars, cli_vars, analysis_vars, ret, commands, max_parallel_commands, progress_tx, rpc, children,
                   joined, channel, rx_alive, results, child, status, wait, res,
                   progress_rx_alive>>

-----------------------------------------------------------------------------
(* The holder of the progress receiver *)

\* rx.recv() of the progress consumer takes one unit.
progress_recv ==
    /\ progress_tx
    /\ progress_rx_alive
    /\ progress_q > 0
    /\ progress_q' = progress_q - 1
    /\ UNCHANGED <<pb_vars, time_vars, args_vars, cli_vars, analysis_vars, ret, commands, max_parallel_commands, progress_tx, rpc, children,
                   joined, channel, rx_alive, results, wpc, child, status, wait,
                   res, evlog, panic_msg, progress_rx_alive>>

\* The progress receiver is dropped; the units still in the channel go with it.
progress_drop ==
    /\ progress_tx
    /\ progress_rx_alive
    /\ progress_rx_alive' = FALSE
    /\ progress_q' = 0
    /\ UNCHANGED <<pb_vars, time_vars, args_vars, cli_vars, analysis_vars, ret, commands, max_parallel_commands, progress_tx, rpc, children,
                   joined, channel, rx_alive, results, wpc, child, status, wait,
                   res, evlog, panic_msg>>

-----------------------------------------------------------------------------
Next ==
    \/ create_child
    \/ create_child_failed
    \/ create_children
    \/ wait_for_results_recv
    \/ wait_for_results_join
    \/ run
    \/ \E i \in Workers : exec_spawn(i)
    \/ \E i \in Workers : \E s \in ExitStatuses : child_exit(i, s)
    \/ \E i \in Workers : exec_wait_timeout(i)
    \/ \E i \in Workers : terminate(i)
    \/ \E i \in Workers : send_result(i)
    \/ \E i \in Workers : send_progress(i)
    \/ progress_recv
    \/ progress_drop

Spec == Init /\ [][Next]_vars

\* Largest number of commands in the runs that look at exec alone.
MaxExecCmds == 1

InitExec == Init /\ N <= MaxExecCmds

\* The same program on at most MaxExecCmds commands.
SpecExec == InitExec /\ [][Next]_vars

\* A step of the thread that called run or of a worker thread.
ThreadStep ==
    \/ create_child
    \/ create_child_failed
    \/ create_children
    \/ wait_for_results_recv
    \/ wait_for_results_join
    \/ run
    \/ \E i \in Workers : exec_spawn(i)
    \/ \E i \in Workers : exec_wait_timeout(i)
    \/ \E i \in Workers : terminate(i)
    \/ \E i \in Workers : send_result(i)
    \/ \E i \in Workers : send_progress(i)

\* The same with the threads scheduled: a thread that can take a step is not
\* left waiting for ever.  Nothing is assumed of the child processes, which
\* may never exit, nor of the holder of the progress receiver.
SpecExecFair == InitExec /\ [][Next]_vars /\ WF_vars(ThreadStep)

-----------------------------------------------------------------------------
(* The run of three commands: ok, bad and slow *)

\* A ThreadRunner over the commands ok (/bin/true), bad (/bin/false) and slow
\* (/bin/sleep 5 with a timeout of 1 s), in that order, all of them allowed to
\* run at once.
InitScenario ==
    /\ commands = <<Command(1, TRUE), Command(2, TRUE), Command(3, TRUE)>>
    /\ max_parallel_commands = Len(commands)
    /\ progress_tx \in BOOLEAN
    /\ rpc = "create_children"
    /\ children = 0
    /\ joined = 0
    /\ channel = <<>>
    /\ rx_alive = TRUE
    /\ results = <<>>
    /\ wpc = [i \in Workers |-> "unspawned"]
    /\ child = [i \in Workers |-> "none"]
    /\ status = [i \in Workers |-> NoStatus]
    /\ wait = [i \in Workers |-> "unset"]
    /\ res = [i \in Workers |-> NoResult]
    /\ evlog = [i \in Workers |-> <<>>]
    /\ panic_msg = [i \in Workers |-> "none"]
    /\ progress_q = 0
    /\ progress_rx_alive = TRUE
    /\ ret = NoReturn
    /\ apc = "idle"
    /\ context = NoContext
    /\ hostinfos = <<>>
    /\ analysis_commands = <<>>
    /\ repetitions = 0
    /\ hostinfo_results = <<>>
    /\ command_results = <<>>
    /\ calls = <<>>
    /\ report = NoReturn
    /\ CliIdle
    /\ ArgsIdle
    /\ NoProgressBar
    /\ TimeIdle

\* What exec logs when a call of the operating system fails.
OsFailures == {"split_err", "tempfile_err", "spawn_err", "seek_err", "read_err",
               "invalid_utf8", "kill_err", "reap_err", "Err"}

\* The operating system of the three commands: no call fails; ok exits with
\* status 0 and bad with a status that is not 0, both before their deadline;
\* slow is still running when its deadline passes and until it is killed.
ScenarioEnv ==
    /\ \A i \in Workers : RangeOf(evlog[i]) \cap OsFailures = {}
    /\ status[1] \in {NoStatus, <<0>>}
    /\ status[2] \in {NoStatus, <<1>>}
    /\ status[3] = NoStatus
    /\ wait[1] # "None"
    /\ wait[2] # "None"

\* ThreadRunner::run and its workers with every thread spawned, every call of
\* the operating system succeeding and the progress receiver kept.
NextScenario ==
    \/ create_child /\ ScenarioEnv'
    \/ create_children /\ ScenarioEnv'
    \/ wait_for_results_recv /\ ScenarioEnv'
    \/ wait_for_results_join /\ ScenarioEnv'
    \/ run /\ ScenarioEnv'
    \/ \E i \in Workers : exec_spawn(i) /\ ScenarioEnv'
    \/ \E i \in Workers : \E s \in ExitStatuses : child_exit(i, s) /\ ScenarioEnv'
    \/ \E i \in Workers : exec_wait_timeout(i) /\ ScenarioEnv'
    \/ \E i \in Workers : terminate(i) /\ ScenarioEnv'
    \/ \E i \in Workers : send_result(i) /\ ScenarioEnv'
    \/ \E i \in Workers : send_progress(i) /\ ScenarioEnv'
    \/ progress_recv /\ ScenarioEnv'

SpecScenario == InitScenario /\ [][NextScenario]_vars

-----------------------------------------------------------------------------
(* Analysis::run, on the thread that called it *)

\* Largest number of repetitions an Analysis is configured with.
MaxReps == 2

\* Analysis::new leaves repetitions at 1 and max_parallel_commands at 64.
DefaultRepetitions == 1

DefaultMaxParallelCommands == 64

\* The Contexts a caller passes to Analysis::run.
Contexts == {"context_a", "context_b"}

\* The state of ThreadRunner::run and of its workers.
runner_vars == <<commands, progress_tx, rpc, children, joined, channel, rx_alive,
                 results, wpc, child, status, wait, res, evlog, panic_msg,
                 progress_q, progress_rx_alive, ret>>

\* An Analysis built by Analysis::new, with_max_parallel_commands and
\* with_repetitions over its hostinfos and commands, and the Context its caller
\* passes to run.  The runner is at rest between its invocations, each of which
\* is taken as a whole by run_commands.
InitAnalysis ==
    /\ \E h \in 0..MaxCmds : hostinfos = [k \in 1..h |-> Command(k, TRUE)]
    /\ \E c \in 0..MaxCmds : analysis_commands = [k \in 1..c |-> Command(k, TRUE)]
    /\ repetitions \in {DefaultRepetitions} \cup 0..MaxReps
    /\ max_parallel_commands \in {1, DefaultMaxParallelCommands}
    /\ context \in Contexts
    /\ apc = "hostinfos"
    /\ hostinfo_results = <<>>
    /\ command_results = <<>>
    /\ calls = <<>>
    /\ report = NoReturn
    /\ commands = <<>>
    /\ progress_tx = FALSE
    /\ rpc = "idle"
    /\ children = 0
    /\ joined = 0
    /\ channel = <<>>
    /\ rx_alive = FALSE
    /\ results = <<>>
    /\ wpc = <<>>
    /\ child = <<>>
    /\ status = <<>>
    /\ wait = <<>>
    /\ res = <<>>
    /\ evlog = <<>>
    /\ panic_msg = <<>>
    /\ progress_q = 0
    /\ progress_rx_alive = FALSE
    /\ ret = NoReturn
    /\ CliIdle
    /\ ArgsIdle
    /\ NoProgressBar
    /\ TimeIdle

\* A thread that panicked returns nothing.
Panicked == [tag |-> "Panicked"]

\* The results exec gives for command c: Success, Failed, Timeout or Error.
OutcomesOf(c) == {Success(c), Failed(c), Timeout(c), fail(c, SpawnError)}

\* The Vecs wait_for_results can build for cmds: one result per command, in
\* the order in which rx.recv() took them.
ResultLists(cmds) ==
    {[k \in 1..Len(cmds) |-> rs[f[k]]] :
        rs \in {x \in [1..Len(cmds) -> UNION {OutcomesOf(cmds[k]) : k \in 1..Len(cmds)}] :
                    \A k \in 1..Len(cmds) : x[k] \in OutcomesOf(cmds[k])},
        f \in Permutations(1..Len(cmds))}

\* What one invocation of ThreadRunner::run on cmds ends with: Ok with a Vec of
\* results, CommandFailed for a thread that could not be spawned, or a panic.
runner_run(cmds) ==
    {Ok(l) : l \in ResultLists(cmds)}
        \cup {Err(CommandFailed(cmds[k].name)) : k \in 1..Len(cmds)}
        \cup (IF cmds = <<>> THEN {} ELSE {Panicked})

\* analysis::Error::RunAnalysisFailed
RunAnalysisFailed(source) == [error |-> "RunAnalysisFailed", source |-> source]

\* run_commands passing the error of the runner on as it is.
run_commands_unwrapped(r) == r

\* run_commands: context(RunAnalysisFailed {}) wraps the error of the runner.
run_commands(r) == IF r.tag = "Err" THEN Err(RunAnalysisFailed(r.err)) ELSE r

\* The units the workers of one invocation on cmds can have sent when it ends
\* with r: every worker has sent its unit and was joined before run returns
\* Ok; the workers spawned before a failing spawn, and those of a run that
\* panics, have sent theirs or have not.
UnitsOf(cmds, r) ==
    CASE r.tag = "Ok"  -> {Len(cmds)}
      [] r.tag = "Err" -> 0..(Len(cmds) - 1)
      [] OTHER         -> 0..Len(cmds)

\* progress_tx.send(1) of the workers of one invocation, where the runner was
\* given the Sender of a progress bar: the units go into its channel; with
\* the Receiver dropped the send fails, the worker panics and run does not
\* return Ok.
Progressed(cmds, r) ==
    CASE pb_pc = "none" -> UNCHANGED pb_vars
      [] pb_pc = "recv" ->
            \E u \in UnitsOf(cmds, r) :
                /\ pb_q' = pb_q + u
                /\ pb_sent' = pb_sent + u
                /\ UNCHANGED <<pb_pc, pb_expected, pb_received>>
      [] OTHER ->
            /\ cmds = <<>> \/ r.tag # "Ok"
            /\ UNCHANGED pb_vars

\* self.runner.run(commands, self.max_parallel_commands) was called with the
\* field `field` of the Analysis and ended with r.
Invoked(field, cmds, r) ==
    /\ calls' = Append(calls, [field |-> field, commands |-> cmds,
                               max_parallel_commands |-> max_parallel_commands,
                               ret |-> r])
    /\ Progressed(cmds, r)

\* AnalysisReport with the fields repetitions and max_parallel_commands
\* exchanged.
AnalysisReport_exchanged(ctx, hr, cr, reps, par) ==
    [context |-> ctx, hostinfo_results |-> hr, command_results |-> cr,
     repetitions |-> par, max_parallel_commands |-> reps]

AnalysisReport(ctx, hr, cr, reps, par) ==
    [context |-> ctx, hostinfo_results |-> hr, command_results |-> cr,
     repetitions |-> reps, max_parallel_commands |-> par]

\* The first line of Analysis::run: run_commands on the hostinfos; `?` returns
\* the error from run.
analysis_run_hostinfos ==
    /\ apc = "hostinfos"
    /\ \E r \in runner_run(hostinfos) :
         /\ Invoked("hostinfos", hostinfos, r)
         /\ CASE r.tag = "Ok" ->
                   /\ hostinfo_results' = run_commands(r).val
                   /\ apc' = "commands"
                   /\ UNCHANGED report
              [] r.tag = "Err" ->
                   /\ report' = run_commands(r)
                   /\ apc' = "returned_err"
                   /\ UNCHANGED hostinfo_results
              [] OTHER ->
                   /\ apc' = "panicked"
                   /\ UNCHANGED <<hostinfo_results, report>>
    /\ UNCHANGED <<time_vars, args_vars, cli_vars, runner_vars, max_parallel_commands, context, hostinfos,
                   analysis_commands, repetitions, command_results>>

\* One turn of the loop of run_commands_rep with the Vec of the turn put in
\* front of the earlier ones.
run_commands_rep_pushing_front ==
    /\ apc = "commands"
    /\ Len(command_results) < repetitions
    /\ \E r \in runner_run(analysis_commands) :
         /\ Invoked("commands", analysis_commands, r)
         /\ CASE r.tag = "Ok" ->
                   /\ command_results' = <<run_commands(r).val>> \o command_results
                   /\ UNCHANGED <<apc, report>>
              [] r.tag = "Err" ->
                   /\ report' = run_commands(r)
                   /\ apc' = "returned_err"
                   /\ UNCHANGED command_results
              [] OTHER ->
                   /\ apc' = "panicked"
                   /\ UNCHANGED <<command_results, report>>
    /\ UNCHANGED <<time_vars, args_vars, cli_vars, runner_vars, max_parallel_commands, context, hostinfos,
                   analysis_commands, repetitions, hostinfo_results>>

\* One turn of the loop of run_commands_rep: run_commands on the commands, its
\* Vec pushed; `?` returns the error from run_commands_rep and from run.
run_commands_rep ==
    /\ apc = "commands"
    /\ Len(command_results) < repetitions
    /\ \E r \in runner_run(analysis_commands) :
         /\ Invoked("commands", analysis_commands, r)
         /\ CASE r.tag = "Ok" ->
                   /\ command_results' = Append(command_results, run_commands(r).val)
                   /\ UNCHANGED <<apc, report>>
              [] r.tag = "Err" ->
                   /\ report' = run_commands(r)
                   /\ apc' = "returned_err"
                   /\ UNCHANGED command_results
              [] OTHER ->
                   /\ apc' = "panicked"
                   /\ UNCHANGED <<command_results, report>>
    /\ UNCHANGED <<time_vars, args_vars, cli_vars, runner_vars, max_parallel_commands, context, hostinfos,
                   analysis_commands, repetitions, hostinfo_results>>

\* The results of l that are Success.
SuccessesOf(l) == SelectSeq(l, LAMBDA x : x.kind = "Success")

\* analysis_run with every result that is not Success left out of the report.
analysis_run_successes_only ==
    /\ apc = "commands"
    /\ Len(command_results) = repetitions
    /\ report' = Ok(AnalysisReport(context, SuccessesOf(hostinfo_results),
                                   [k \in 1..Len(command_results) |->
                                       SuccessesOf(command_results[k])],
                                   repetitions, max_parallel_commands))
    /\ apc' = "returned_ok"
    /\ UNCHANGED <<pb_vars, time_vars, args_vars, cli_vars, runner_vars, max_parallel_commands, context, hostinfos,
                   analysis_commands, repetitions, hostinfo_results,
                   command_results, calls>>

\* The loop of run_commands_rep is over and Analysis::run returns Ok with the
\* AnalysisReport.
analysis_run ==
    /\ apc = "commands"
    /\ Len(command_results) = repetitions
    /\ report' = Ok(AnalysisReport(context, hostinfo_results, command_results,
                                   repetitions, max_parallel_commands))
    /\ apc' = "returned_ok"
    /\ UNCHANGED <<pb_vars, time_vars, args_vars, cli_vars, runner_vars, max_parallel_commands, context, hostinfos,
                   analysis_commands, repetitions, hostinfo_results,
                   command_results, calls>>

NextAnalysis ==
    \/ analysis_run_hostinfos
    \/ run_commands_rep
    \/ analysis_run

\* Analysis::run over at most MaxCmds hostinfos and MaxCmds commands.
SpecAnalysis == InitAnalysis /\ [][NextAnalysis]_vars

InitAnalysisExec ==
    /\ InitAnalysis
    /\ Len(hostinfos) <= MaxExecCmds
    /\ Len(analysis_commands) <= MaxExecCmds
    /\ Len(analysis_commands) * repetitions <= MaxReps

\* The same on at most MaxExecCmds hostinfos and MaxExecCmds commands, the
\* commands executed at most MaxReps times in all.
SpecAnalysisExec == InitAnalysisExec /\ [][NextAnalysis]_vars

\* A ThreadRunner run on its own, or an Analysis with its runner taken as a
\* whole.
SpecRunnerOrAnalysis ==
    (InitExec \/ InitAnalysisExec) /\ [][Next \/ NextAnalysis]_vars

-----------------------------------------------------------------------------
(* Config: the configuration document, its defaults and its validation *)

\* Option<T>: None, and Some(v) as <<v>>.
None == <<>>

Some(v) == <<v>>

unwrap_or(o, d) == IF o = None THEN d ELSE o[1]

\* Result<(), E>: the value of Ok(()).
Unit == "()"

\* Defaults::default(): the values of the fields [defaults] leaves out.
default_profile == "default"

default_timeout == 5

default_repetitions == 1

default_max_parallel_commands == 64

\* The deadline of exec for a command without a timeout, in seconds.
HardDefaultTimeout == 1

\* config::Error
ParseConfigFailed == [error |-> "ParseConfigFailed", reason |-> "missing field defaults"]

InvalidConfig(reason) == [error |-> "InvalidConfig", reason |-> reason]

\* Command::with_timeout
with_timeout(self, timeout_sec) == [self EXCEPT !.timeout_sec = Some(timeout_sec)]

\* The Duration exec waits for the child: self.timeout_sec.unwrap_or(1).
deadline(self) == unwrap_or(self.timeout_sec, HardDefaultTimeout)

\* Defaults as serde makes it of the table [defaults]: a field that is absent
\* gets its default.
Defaults(d) ==
    [profile               |-> unwrap_or(d.profile, default_profile),
     timeout               |-> unwrap_or(d.timeout, default_timeout),
     repetitions           |-> unwrap_or(d.repetitions, default_repetitions),
     max_parallel_commands |-> unwrap_or(d.max_parallel_commands,
                                         default_max_parallel_commands)]

\* toml::from_str into Config: `defaults` has no default, so that a document
\* without the table is rejected; hostinfo is an Option; [[profile]] and
\* [[command]] are renamed to profiles and commands.
toml_from_str(t) ==
    IF t.defaults = None
    THEN Err(ParseConfigFailed)
    ELSE Ok([defaults |-> Defaults(t.defaults[1]),
             hostinfo |-> t.hostinfo,
             profiles |-> t.profile,
             commands |-> t.command])

\* populate_commands_timeout putting the timeout on every command.
populate_commands_timeout_overriding(self, timeout) ==
    [self EXCEPT !.commands =
        [k \in 1..Len(self.commands) |-> with_timeout(self.commands[k], timeout)]]

populate_commands_timeout(self, timeout) ==
    [self EXCEPT !.commands =
        [k \in 1..Len(self.commands) |->
            IF self.commands[k].timeout_sec = None
            THEN with_timeout(self.commands[k], timeout)
            ELSE self.commands[k]]]

populate_defaults(self) == populate_commands_timeout(self, self.defaults.timeout)

\* Config::from_str
from_str(t) ==
    IF toml_from_str(t).tag = "Err"
    THEN toml_from_str(t)
    ELSE Ok(populate_defaults(toml_from_str(t).val))

\* Config::profile: the first profile of that name.
profile(self, profile_name) ==
    IF SelectSeq(self.profiles, LAMBDA x : x.name = profile_name) = <<>>
    THEN Err(InvalidConfig("no such profile"))
    ELSE Ok(SelectSeq(self.profiles, LAMBDA x : x.name = profile_name)[1])

commands_for_hostinfo(self) ==
    IF self.hostinfo # None
    THEN SelectSeq(self.commands,
                   LAMBDA c : c.name \in RangeOf(self.hostinfo[1].commands))
    ELSE <<>>

\* commands_for_profile following the order of the names in the profile.
commands_for_profile_as_listed(self, p) ==
    [k \in 1..Len(SelectSeq(p.commands,
                            LAMBDA n : \E c \in RangeOf(self.commands) : c.name = n)) |->
        CHOOSE c \in RangeOf(self.commands) :
            c.name = SelectSeq(p.commands,
                               LAMBDA n : \E x \in RangeOf(self.commands) : x.name = n)[k]]

commands_for_profile(self, p) ==
    SelectSeq(self.commands, LAMBDA c : c.name \in RangeOf(p.commands))

\* The HashSet of the names of the commands of the Config.
command_names(self) == {self.commands[k].name : k \in 1..Len(self.commands)}

\* validate_host_info finding nothing to object to.
validate_host_info_skipped(self) == Ok(Unit)

validate_host_info(self) ==
    IF /\ self.hostinfo # None
       /\ \E c \in RangeOf(self.hostinfo[1].commands) : c \notin command_names(self)
    THEN Err(InvalidConfig("hostinfo command not found"))
    ELSE Ok(Unit)

validate_default_profile(self) ==
    IF profile(self, self.defaults.profile).tag = "Ok"
    THEN Ok(Unit)
    ELSE profile(self, self.defaults.profile)

validate_profiles_commands(self) ==
    IF \E k \in 1..Len(self.profiles) :
          \E c \in RangeOf(self.profiles[k].commands) : c \notin command_names(self)
    THEN Err(InvalidConfig("profile command not found"))
    ELSE Ok(Unit)

\* Config::validate: the three checks, the first error returned by `?`.
validate(self) ==
    IF validate_host_info(self).tag = "Err" THEN validate_host_info(self)
    ELSE IF validate_default_profile(self).tag = "Err" THEN validate_default_profile(self)
    ELSE validate_profiles_commands(self)

-----------------------------------------------------------------------------
(* cli::main and generate_report, on the main thread *)

\* The number of commands a configuration document defines.
MaxConfigCmds == 2

\* The largest number of executions a run of the program is asked for.
MaxWorkload == 2

\* create_command_filter: the names after + and the names after -; a
\* word with neither prefix is dropped.
create_command_filter(command_spec) ==
    [add    |-> {cs.name : cs \in {x \in RangeOf(command_spec) : x.prefix = "+"}},
     remove |-> {cs.name : cs \in {x \in RangeOf(command_spec) : x.prefix = "-"}}]

\* create_commands: the commands of the profile without the removed ones,
\* then the commands of the Config that were added.
create_commands(o, c, profile_name) ==
    IF profile(c, profile_name).tag = "Err"
    THEN profile(c, profile_name)
    ELSE Ok(SelectSeq(commands_for_profile(c, profile(c, profile_name).val),
                      LAMBDA x : x.name \notin create_command_filter(o.filter_commands).remove)
            \o SelectSeq(c.commands,
                         LAMBDA x : x.name \in create_command_filter(o.filter_commands).add))

\* let profile_name = opt.profile.as_ref().unwrap_or(&config.defaults.profile)
profile_name_of(o, c) == unwrap_or(o.profile, c.defaults.profile)

\* let parallel = opt.parallel.unwrap_or(config.defaults.max_parallel_commands)
parallel_of(o, c) == unwrap_or(o.parallel, c.defaults.max_parallel_commands)

\* let repetitions = opt.repetitions.unwrap_or(config.defaults.repetitions)
repetitions_of(o, c) == unwrap_or(o.repetitions, c.defaults.repetitions)

\* let number_of_commands = hostinfo.len() + repetitions * commands.len()
number_of_commands(o, c) ==
    Len(commands_for_hostinfo(c))
        + repetitions_of(o, c) * Len(create_commands(o, c, profile_name_of(o, c)).val)

\* Opt::validate
opt_validate(o) ==
    IF o.output_type = "hbs" /\ o.output_template = None
    THEN Err([error |-> "Output type hbs requires output template"])
    ELSE Ok(o)

\* is_show_progress: --progress, else not with --no-progress, else whether
\* stderr is a terminal.
is_show_progress(o, atty) ==
    IF o.progress THEN TRUE
    ELSE IF o.no_progress THEN FALSE
    ELSE atty

\* create_progress_bar: the channel and the thread "Progress" that is to
\* receive `expected` units; the Result of spawn is dropped, and with it, where
\* the thread could not be spawned, the Receiver.
create_progress_bar(expected) ==
    /\ pb_pc' \in {"recv", "spawn_failed"}
    /\ pb_expected' = expected
    /\ pb_received' = 0
    /\ pb_q' = 0
    /\ pb_sent' = 0

\* create_runner(progress, number_of_commands)
create_runner(progress, expected) ==
    IF progress THEN create_progress_bar(expected) ELSE UNCHANGED pb_vars

\* What main and generate_report fail with.
ExitFailure(context_msg, cause) == [error |-> context_msg, cause |-> cause]

\* Opt::from_args().validate()? and the loading of the configuration.
main_load ==
    /\ cpc = "start"
    /\ IF opt_validate(opt).tag = "Err"
       THEN /\ cli_ret' = Err(opt_validate(opt).err)
            /\ cpc' = "returned_err"
            /\ UNCHANGED config
       ELSE IF from_str(toml).tag = "Err"
       THEN /\ cli_ret' = Err(ExitFailure("could not load configuration file",
                                          from_str(toml).err))
            /\ cpc' = "returned_err"
            /\ UNCHANGED config
       ELSE /\ config' = Some(from_str(toml).val)
            /\ cpc' = "loaded"
            /\ UNCHANGED cli_ret
    /\ UNCHANGED <<pb_vars, time_vars, args_vars, opt, toml, analysis_vars, runner_vars, max_parallel_commands>>

\* config.validate()?, then the three show options, each of which returns
\* after printing.
main_validate ==
    /\ cpc = "loaded"
    /\ IF validate(config[1]).tag = "Err"
       THEN /\ cli_ret' = Err(validate(config[1]).err)
            /\ cpc' = "returned_err"
       ELSE IF opt.show_config \/ opt.show_profiles \/ opt.show_commands
       THEN /\ cli_ret' = Ok(Unit)
            /\ cpc' = "returned_ok"
       ELSE /\ cpc' = "generate_report"
            /\ UNCHANGED cli_ret
    /\ UNCHANGED <<pb_vars, time_vars, args_vars, opt, toml, config, analysis_vars, runner_vars, max_parallel_commands>>

\* generate_report up to the call of analysis.run: the renderer, the commands
\* and the Context can each fail; otherwise the Analysis is built with
\* with_max_parallel_commands(parallel) and with_repetitions(repetitions) and
\* run is called.
generate_report ==
    /\ cpc = "generate_report"
    /\ \/ /\ opt.output_type = "hbs"
          /\ cli_ret' = Err([error |-> "failed to read template file"])
          /\ cpc' = "returned_err"
          /\ UNCHANGED <<pb_vars, analysis_vars, max_parallel_commands>>
       \/ /\ create_commands(opt, config[1], profile_name_of(opt, config[1])).tag = "Err"
          /\ cli_ret' = Err(create_commands(opt, config[1],
                                            profile_name_of(opt, config[1])).err)
          /\ cpc' = "returned_err"
          /\ UNCHANGED <<pb_vars, analysis_vars, max_parallel_commands>>
       \/ /\ create_commands(opt, config[1], profile_name_of(opt, config[1])).tag = "Ok"
          /\ \E atty \in BOOLEAN :
                create_runner(is_show_progress(opt, atty),
                              number_of_commands(opt, config[1]))
          /\ cli_ret' = Err([error |-> "InitContextFailed"])
          /\ cpc' = "returned_err"
          /\ UNCHANGED <<analysis_vars, max_parallel_commands>>
       \/ /\ create_commands(opt, config[1], profile_name_of(opt, config[1])).tag = "Ok"
          /\ \E atty \in BOOLEAN :
                create_runner(is_show_progress(opt, atty),
                              number_of_commands(opt, config[1]))
          /\ hostinfos' = commands_for_hostinfo(config[1])
          /\ analysis_commands' =
                create_commands(opt, config[1], profile_name_of(opt, config[1])).val
          /\ max_parallel_commands' = parallel_of(opt, config[1])
          /\ repetitions' = repetitions_of(opt, config[1])
          /\ context' = profile_name_of(opt, config[1])
          /\ apc' = "hostinfos"
          /\ cpc' = "analysis_run"
          /\ UNCHANGED <<hostinfo_results, command_results, calls, report, cli_ret>>
    /\ UNCHANGED <<time_vars, args_vars, opt, toml, config, runner_vars>>

\* analysis.run(context)? returned; the report is rendered, which can fail.
generate_report_render ==
    /\ cpc = "analysis_run"
    /\ \/ /\ apc = "returned_err"
          /\ cli_ret' = Err(report.err)
          /\ cpc' = "returned_err"
       \/ /\ apc = "returned_ok"
          /\ cli_ret' = Ok(Unit)
          /\ cpc' = "returned_ok"
       \/ /\ apc = "returned_ok"
          /\ cli_ret' = Err([error |-> "failed to render report"])
          /\ cpc' = "returned_err"
    /\ UNCHANGED <<pb_vars, time_vars, args_vars, opt, toml, config, analysis_vars, runner_vars, max_parallel_commands>>

\* The thread "Progress": rx.recv() takes a unit and pb.inc(1) counts it.
progress_bar_recv ==
    /\ pb_pc = "recv"
    /\ pb_received < pb_expected
    /\ pb_q > 0
    /\ pb_q' = pb_q - 1
    /\ pb_received' = pb_received + 1
    /\ UNCHANGED <<pb_pc, pb_expected, pb_sent, time_vars, args_vars, cli_vars, analysis_vars,
                   runner_vars, max_parallel_commands>>

\* The thread "Progress" after the last turn of its loop:
\* pb.finish_and_clear(), and the Receiver is dropped with the closure.
progress_bar_finish ==
    /\ pb_pc = "recv"
    /\ pb_received = pb_expected
    /\ pb_pc' = "finished"
    /\ UNCHANGED <<pb_expected, pb_received, pb_q, pb_sent, time_vars, args_vars, cli_vars,
                   analysis_vars, runner_vars, max_parallel_commands>>

\* The runner, and with it the Sender, is dropped where generate_report
\* returns or its thread panics.
SenderDropped == cpc \in {"returned_ok", "returned_err"} \/ apc = "panicked"

\* The thread "Progress" where rx.recv() is Err, every Sender dropped and no
\* unit left: expect panics.
progress_bar_recv_failed ==
    /\ pb_pc = "recv"
    /\ pb_received < pb_expected
    /\ pb_q = 0
    /\ SenderDropped
    /\ pb_pc' = "panicked"
    /\ UNCHANGED <<pb_expected, pb_received, pb_q, pb_sent, time_vars, args_vars, cli_vars,
                   analysis_vars, runner_vars, max_parallel_commands>>

\* main returns, or its thread panics, and the process exits: the thread
\* "Progress", which nothing joins, ends with it where it is still in its loop.
process_exit ==
    /\ SenderDropped
    /\ pb_pc = "recv"
    /\ pb_pc' = "killed"
    /\ UNCHANGED <<pb_expected, pb_received, pb_q, pb_sent, time_vars, args_vars,
                   cli_vars, analysis_vars, runner_vars, max_parallel_commands>>

NextCli ==
    \/ main_load
    \/ main_validate
    \/ generate_report
    \/ analysis_run_hostinfos
    \/ run_commands_rep
    \/ analysis_run
    \/ generate_report_render
    \/ progress_bar_recv
    \/ progress_bar_finish
    \/ progress_bar_recv_failed
    \/ process_exit

\* A [[command]] table: its name is a number, its timeout an Option.
TomlCommand(name, timeout_sec) ==
    [name |-> name, command |-> "wellformed", timeout_sec |-> timeout_sec]

\* The timeouts the documents give: one for a command of its own, another
\* for [defaults].
OwnTimeout == 2

ConfiguredTimeout == 3

\* The lists of at most MaxConfigCmds commands, named 1, 2, ...
CommandLists(timeouts) ==
    UNION {{[k \in 1..n |-> TomlCommand(k, t[k])] : t \in [1..n -> timeouts]} :
              n \in 0..MaxConfigCmds}

\* The lists of names a profile or hostinfo refers to: no name, one or two,
\* none twice, the largest of them the name of no command.
NameLists ==
    UNION {{s \in [1..n -> 1..(MaxConfigCmds + 1)] :
               \A j, k \in 1..n : s[j] = s[k] => j = k} : n \in 0..2}

TomlProfile(name, cmds) == [name |-> name, commands |-> cmds]

\* [defaults] with nothing in it.
EmptyDefaults ==
    [profile |-> None, timeout |-> None, repetitions |-> None,
     max_parallel_commands |-> None]

\* Options with nothing given on the command line but --no-progress.
NoOptions ==
    [parallel |-> None, repetitions |-> None, profile |-> None,
     filter_commands |-> <<>>, show_config |-> FALSE, show_profiles |-> FALSE,
     show_commands |-> FALSE, output_type |-> "markdown", output_template |-> None,
     progress |-> FALSE, no_progress |-> TRUE]

\* Documents and options that differ in their timeouts.
TimeoutInputs ==
    {<<[defaults |-> Some([EmptyDefaults EXCEPT !.timeout = dt]),
        hostinfo |-> hi,
        profile  |-> <<TomlProfile("default", [k \in 1..Len(cs) |-> k])>>,
        command  |-> cs], NoOptions>> :
        dt \in {None, Some(ConfiguredTimeout)},
        hi \in {None, Some([commands |-> <<1>>])},
        cs \in CommandLists({None, Some(OwnTimeout)}) \ {<<>>}}

\* Documents and options that differ in repetitions and parallelism: with and
\* without [defaults], the numbers given there, on the command line, or not.
NumberInputs ==
    {<<[defaults |-> d,
        hostinfo |-> None,
        profile  |-> <<TomlProfile("default", <<1>>)>>,
        command  |-> <<TomlCommand(1, None)>>],
       [NoOptions EXCEPT !.parallel = op, !.repetitions = orp]>> :
        d \in {None} \cup
              {Some([EmptyDefaults EXCEPT !.repetitions = r, !.max_parallel_commands = p]) :
                  r \in {None} \cup {Some(n) : n \in 0..MaxReps},
                  p \in {None, Some(0), Some(1)}},
        op \in {None, Some(0), Some(2)},
        orp \in {None, Some(0), Some(MaxReps)}}

\* Documents and options that differ in the names they define and refer to.
NameInputs ==
    {<<[defaults |-> Some([EmptyDefaults EXCEPT !.profile = dp]),
        hostinfo |-> hi,
        profile  |-> ps,
        command  |-> cs],
       [NoOptions EXCEPT !.profile = p, !.filter_commands = f]>> :
        dp \in {None, Some("other")},
        hi \in {None} \cup {Some([commands |-> ns]) : ns \in NameLists},
        ps \in {<<>>}
                 \cup {<<TomlProfile("default", ns)>> : ns \in NameLists}
                 \cup {<<TomlProfile("other", ns)>> : ns \in NameLists}
                 \cup {<<TomlProfile("default", ns), TomlProfile("other", <<>>)>> :
                          ns \in NameLists},
        cs \in CommandLists({None}),
        p \in {None, Some("other")},
        f \in {<<>>, <<[prefix |-> "+", name |-> 1]>>, <<[prefix |-> "-", name |-> 1]>>}}

\* Options that print and return, or choose the renderer.
ModeInputs ==
    {<<[defaults |-> Some(EmptyDefaults),
        hostinfo |-> None,
        profile  |-> <<TomlProfile(dn, <<>>)>>,
        command  |-> <<>>],
       [NoOptions EXCEPT !.show_config = sc, !.show_profiles = sp,
                         !.show_commands = sm, !.output_type = ot,
                         !.output_template = tp]>> :
        dn \in {"default", "other"},
        sc \in BOOLEAN, sp \in BOOLEAN, sm \in BOOLEAN,
        ot \in {"markdown", "hbs"},
        tp \in {None, Some("template")}}

\* Documents and options that differ in what the progress bar is to count:
\* with and without --progress and --no-progress, hostinfo and repetitions.
ProgressInputs ==
    {<<[defaults |-> Some(EmptyDefaults),
        hostinfo |-> hi,
        profile  |-> <<TomlProfile("default", ns)>>,
        command  |-> cs],
       [NoOptions EXCEPT !.progress = pr, !.no_progress = np, !.repetitions = orp]>> :
        hi \in {None, Some([commands |-> <<1>>])},
        ns \in {<<>>, <<1>>},
        cs \in CommandLists({None}) \ {<<>>},
        pr \in BOOLEAN, np \in BOOLEAN,
        orp \in {None, Some(0), Some(MaxReps)}}

\* The executions the options and the document ask for are at most
\* MaxWorkload, where they ask for any.
WithinWorkload(t, o) ==
    (/\ from_str(t).tag = "Ok"
     /\ validate(from_str(t).val).tag = "Ok"
     /\ create_commands(o, from_str(t).val,
                        profile_name_of(o, from_str(t).val)).tag = "Ok")
        => number_of_commands(o, from_str(t).val) <= MaxWorkload

\* main starts with the options of the command line and the document of the
\* configuration file; no Analysis exists yet and the runner is at rest.
InitCli ==
    /\ \E io \in TimeoutInputs \cup NumberInputs \cup NameInputs \cup ModeInputs
                    \cup ProgressInputs :
         /\ WithinWorkload(io[1], io[2])
         /\ toml = io[1]
         /\ opt = io[2]
    /\ cpc = "start"
    /\ config = None
    /\ cli_ret = NoReturn
    /\ apc = "idle"
    /\ context = NoContext
    /\ hostinfos = <<>>
    /\ analysis_commands = <<>>
    /\ repetitions = 0
    /\ hostinfo_results = <<>>
    /\ command_results = <<>>
    /\ calls = <<>>
    /\ report = NoReturn
    /\ max_parallel_commands = 1
    /\ commands = <<>>
    /\ progress_tx = FALSE
    /\ rpc = "idle"
    /\ children = 0
    /\ joined = 0
    /\ channel = <<>>
    /\ rx_alive = FALSE
    /\ results = <<>>
    /\ wpc = <<>>
    /\ child = <<>>
    /\ status = <<>>
    /\ wait = <<>>
    /\ res = <<>>
    /\ evlog = <<>>
    /\ panic_msg = <<>>
    /\ progress_q = 0
    /\ progress_rx_alive = FALSE
    /\ ret = NoReturn
    /\ ArgsIdle
    /\ NoProgressBar
    /\ TimeIdle

SpecCli == InitCli /\ [][NextCli]_vars

-----------------------------------------------------------------------------
(* Command::args: shellwords::split on the command line *)

\* A command line is a sequence of characters: a space, the two quotes, and
\* plain characters, which are none of these and no backslash.
Space == " "

SingleQuote == "'"

DoubleQuote == "\""

Quotes == {SingleQuote, DoubleQuote}

PlainChars == {"d", "5"}

Chars == PlainChars \cup Quotes \cup {Space}

\* shellwords::MismatchedQuotes
MismatchedQuotes == [error |-> "MismatchedQuotes"]

\* The position of the first q of s after position i, or 0 without one.
Closing(s, i, q) ==
    IF \E k \in (i + 1)..Len(s) : s[k] = q
    THEN CHOOSE k \in (i + 1)..Len(s) : s[k] = q /\ \A j \in (i + 1)..(k - 1) : s[j] # q
    ELSE 0

\* The position after the longest run of characters from position i on that
\* are neither space nor quote.
RunEnd(s, i) ==
    IF \E k \in i..Len(s) : s[k] \in Quotes \cup {Space}
    THEN CHOOSE k \in i..Len(s) :
            s[k] \in Quotes \cup {Space} /\ \A j \in i..(k - 1) : s[j] \notin Quotes \cup {Space}
    ELSE Len(s) + 1

\* Splitting at the spaces alone, quotes being characters like any other.
RECURSIVE split_at_spaces(_, _, _, _)
split_at_spaces(s, i, field, words) ==
    IF i > Len(s)
    THEN Ok(IF field = <<>> THEN words ELSE Append(words, field))
    ELSE IF s[i] = Space
    THEN split_at_spaces(s, i + 1, <<>>, IF field = <<>> THEN words ELSE Append(words, field))
    ELSE split_at_spaces(s, i + 1, Append(field, s[i]), words)

\* The loop of shellwords::split over the matches of its pattern, from
\* position i on, with the field and the words made so far.  A match is a run
\* of plain characters, a single-quoted or a double-quoted segment, whose
\* content is added to the field, or a lone character that is not a space,
\* an unmatched quote, for which split returns MismatchedQuotes; a space or the
\* end of the line after the match ends the field, which becomes a word.
RECURSIVE split_from(_, _, _, _)
split_from(s, i, field, words) ==
    IF i > Len(s) THEN Ok(words)
    ELSE IF s[i] = Space THEN split_from(s, i + 1, field, words)
    ELSE LET quoted == s[i] \in Quotes
             close  == IF quoted THEN Closing(s, i, s[i]) ELSE 0
             next   == IF quoted THEN close + 1 ELSE RunEnd(s, i)
             piece  == IF quoted THEN SubSeq(s, i + 1, close - 1)
                                 ELSE SubSeq(s, i, next - 1)
         IN  IF quoted /\ close = 0 THEN Err(MismatchedQuotes)
             ELSE IF next > Len(s) \/ s[next] = Space
             THEN split_from(s, next + 1, <<>>, Append(words, field \o piece))
             ELSE split_from(s, next, field \o piece, words)

\* split with every quote taken as a plain character.
shellwords_split_at_spaces(s) == split_at_spaces(s, 1, <<>>, <<>>)

shellwords_split(s) == split_from(s, 1, <<>>, <<>>)

\* The longest text between quotes, and the longest of the other lines.
MaxText == 3

MaxLine == 3

\* The sequences of at most n characters of cs.
Texts(cs, n) == UNION {[1..k -> cs] : k \in 0..n}

sh == <<"s", "h">>

dash_c == <<"-", "c">>

sleep == <<"/", "b", "i", "n", "/", "s", "l", "e", "e", "p">>

\* sh -c followed by the text in the quotes q.
QuotedLine(q, text) == sh \o <<Space>> \o dash_c \o <<Space>> \o <<q>> \o text \o <<q>>

\* The texts the tests put in quotes: spaces and double quotes in single
\* quotes, spaces in double quotes.
TextsIn(q) ==
    IF q = SingleQuote THEN Texts(PlainChars \cup {Space, DoubleQuote}, MaxText)
                       ELSE Texts(PlainChars \cup {Space}, MaxText)

\* The command lines of the tests command_split, command_split_single_quotes
\* and command_split_double_quotes, and every short line.
Lines ==
    {sleep \o <<Space, "5">>}
        \cup UNION {{QuotedLine(q, t) : t \in TextsIn(q)} : q \in Quotes}
        \cup Texts(Chars, MaxLine)

\* Command::new with a command line of Lines; nothing else is running.
InitArgs ==
    /\ line \in Lines
    /\ argv = NoReturn
    /\ NoProgressBar
    /\ TimeIdle
    /\ CliIdle
    /\ apc = "idle"
    /\ context = NoContext
    /\ hostinfos = <<>>
    /\ analysis_commands = <<>>
    /\ repetitions = 0
    /\ hostinfo_results = <<>>
    /\ command_results = <<>>
    /\ calls = <<>>
    /\ report = NoReturn
    /\ max_parallel_commands = 1
    /\ commands = <<>>
    /\ progress_tx = FALSE
    /\ rpc = "idle"
    /\ children = 0
    /\ joined = 0
    /\ channel = <<>>
    /\ rx_alive = FALSE
    /\ results = <<>>
    /\ wpc = <<>>
    /\ child = <<>>
    /\ status = <<>>
    /\ wait = <<>>
    /\ res = <<>>
    /\ evlog = <<>>
    /\ panic_msg = <<>>
    /\ progress_q = 0
    /\ progress_rx_alive = FALSE
    /\ ret = NoReturn

\* Command::args
command_args ==
    /\ argv = NoReturn
    /\ argv' = shellwords_split(line)
    /\ UNCHANGED <<time_vars, pb_vars, line, cli_vars, analysis_vars, runner_vars, max_parallel_commands>>

NextArgs == command_args

SpecArgs == InitArgs /\ [][NextArgs]_vars

-----------------------------------------------------------------------------
(* The times of Command::exec *)

\* The bits of a u64, on the scale of the model.
U64Bits == 16

\* The milliseconds of a second: Duration::new(secs, 0), num_milliseconds().
MsPerSec == 1000

\* The seconds that pass while the exec is followed.
MaxElapsed == 3

\* The seconds by which the clock of the system is set off the time that has
\* passed, forwards or backwards.
MaxSkew == 1

\* `as u64` of an i64: the value modulo the size of the type, so that a
\* negative number becomes a large one.
as_u64(x) == x % (2 ^ U64Bits)

\* (Local::now() - start_time).num_milliseconds() as u64
elapsed_ms(now, start) == as_u64(now - start)

\* An exec is about to read its start_time: its command has a timeout of its
\* own or none, the clock of the system is right, nothing else is running.
InitTime ==
    /\ tpc = "start"
    /\ clock = 0
    /\ instant = 0
    /\ exec_timeout_sec \in {None, Some(OwnTimeout)}
    /\ start_time = None
    /\ wait_began = 0
    /\ run_time_ms = None
    /\ time_res = "none"
    /\ ArgsIdle
    /\ NoProgressBar
    /\ CliIdle
    /\ apc = "idle"
    /\ context = NoContext
    /\ hostinfos = <<>>
    /\ analysis_commands = <<>>
    /\ repetitions = 0
    /\ hostinfo_results = <<>>
    /\ command_results = <<>>
    /\ calls = <<>>
    /\ report = NoReturn
    /\ max_parallel_commands = 1
    /\ commands = <<>>
    /\ progress_tx = FALSE
    /\ rpc = "idle"
    /\ children = 0
    /\ joined = 0
    /\ channel = <<>>
    /\ rx_alive = FALSE
    /\ results = <<>>
    /\ wpc = <<>>
    /\ child = <<>>
    /\ status = <<>>
    /\ wait = <<>>
    /\ res = <<>>
    /\ evlog = <<>>
    /\ panic_msg = <<>>
    /\ progress_q = 0
    /\ progress_rx_alive = FALSE
    /\ ret = NoReturn

\* What the times of an exec leave alone.
untimed_vars == <<pb_vars, args_vars, cli_vars, analysis_vars, runner_vars,
                  max_parallel_commands>>

\* let start_time = Local::now()
exec_start_time ==
    /\ tpc = "start"
    /\ start_time' = Some(clock)
    /\ tpc' = "create"
    /\ UNCHANGED <<clock, instant, exec_timeout_sec, wait_began, run_time_ms, time_res,
                   untimed_vars>>

\* Popen::create: exec returns self.fail(err), or goes on to call
\* p.wait_timeout.
exec_popen_create ==
    /\ tpc = "create"
    /\ \/ /\ tpc' = "done"
          /\ time_res' = "Error"
          /\ UNCHANGED wait_began
       \/ /\ tpc' = "wait"
          /\ wait_began' = instant
          /\ UNCHANGED time_res
    /\ UNCHANGED <<clock, instant, exec_timeout_sec, start_time, run_time_ms, untimed_vars>>

\* The deadline of the wait, in milliseconds.
deadline_ms == unwrap_or(exec_timeout_sec, HardDefaultTimeout) * MsPerSec

\* p.wait_timeout returns, Ok(None) no sooner than the timeout after its call,
\* and run_time_ms is taken; a child that exited gives Success or Failed, or
\* Error where its output cannot be read; the arms Ok(None) and Err go on to
\* terminate.
exec_run_time ==
    /\ tpc = "wait"
    /\ run_time_ms' = Some(elapsed_ms(clock, start_time[1]))
    /\ \/ /\ instant - wait_began <= deadline_ms
          /\ time_res' \in {"Success", "Failed", "Error"}
          /\ tpc' = "done"
       \/ /\ instant - wait_began >= deadline_ms
          /\ time_res' = "Timeout"
          /\ tpc' = "terminate"
       \/ /\ time_res' = "Error"
          /\ tpc' = "terminate"
    /\ UNCHANGED <<clock, instant, exec_timeout_sec, start_time, wait_began, untimed_vars>>

\* terminate: kill and wait, after which exec returns the Timeout or the Error.
exec_terminated ==
    /\ tpc = "terminate"
    /\ tpc' = "done"
    /\ UNCHANGED <<clock, instant, exec_timeout_sec, start_time, wait_began, run_time_ms,
                   time_res, untimed_vars>>

\* A second passes while exec is between its first line and its return.
time_passes ==
    /\ tpc \in {"create", "wait", "terminate"}
    /\ instant < MaxElapsed * MsPerSec
    /\ instant' = instant + MsPerSec
    /\ clock' = clock + MsPerSec
    /\ UNCHANGED <<tpc, exec_timeout_sec, start_time, wait_began, run_time_ms, time_res,
                   untimed_vars>>

\* The clock of the system is set, a second forwards or backwards, by its
\* administrator or by the synchronisation of its time.
clock_set(d) ==
    /\ tpc \in {"create", "wait", "terminate"}
    /\ clock + d - instant \in (0 - MaxSkew * MsPerSec)..(MaxSkew * MsPerSec)
    /\ clock' = clock + d
    /\ UNCHANGED <<tpc, instant, exec_timeout_sec, start_time, wait_began, run_time_ms,
                   time_res, untimed_vars>>

NextTime ==
    \/ exec_start_time
    \/ exec_popen_create
    \/ exec_run_time
    \/ exec_terminated
    \/ time_passes
    \/ \E d \in {0 - MsPerSec, MsPerSec} : clock_set(d)

SpecTime == InitTime /\ [][NextTime]_vars

-----------------------------------------------------------------------------
(* Vocabulary of the properties *)

Kinds == {"Success", "Failed", "Timeout", "Error"}

TerminatePanics == {"failed to kill command", "failed to wait for command to finish"}

\* exec of command i has taken its first step.
ExecStarted(i) == evlog[i] # <<>>

\* exec of command i has returned a result.
ExecReturned(i) == res[i] # NoResult

\* exec of command i has panicked inside terminate.
ExecPanicked(i) == wpc[i] = "panicked" /\ panic_msg[i] \in TerminatePanics

\* exec of command i is over, one way or the other.
ExecEnded(i) == ExecReturned(i) \/ ExecPanicked(i)

\* Command i is executing: started, and no result produced yet.
Executing(i) == ExecStarted(i) /\ ~ExecReturned(i) /\ wpc[i] # "panicked"

Did(i, e) == e \in RangeOf(evlog[i])

\* Event a comes before event b in what exec of command i did.
Before(i, a, b) ==
    \E m, n \in 1..Len(evlog[i]) : m < n /\ evlog[i][m] = a /\ evlog[i][n] = b

\* The chunk of command i when the input is cut into consecutive chunks of
\* max_parallel_commands commands.
ChunkOf(i) == (i - 1) \div max_parallel_commands

-----------------------------------------------------------------------------
(* The runner *)

\* C1. Order preservation: when run returns Ok, for max_parallel_commands in
\* 1..N, the i-th element of the returned list is the result of the i-th input
\* command, whatever the order in which the workers completed.
C1_OrderPreservation ==
    (rpc = "returned_ok" /\ max_parallel_commands \in 1..N)
        => \A i \in Workers : results[i] = res[i] /\ results[i].command = commands[i]

\* C2. Concurrency ceiling: in every reachable state the number of commands
\* that have started executing and have not yet produced a result is at most
\* max_parallel_commands.
C2_ConcurrencyCeiling ==
    Cardinality({i \in Workers : Executing(i)}) <= max_parallel_commands

\* C3. Chunk barrier: no command of chunk k+1 starts executing before every
\* command of chunk k has produced its result.
C3_ChunkBarrier ==
    \A i, j \in Workers :
        (ChunkOf(j) = ChunkOf(i) + 1 /\ ExecStarted(j)) => ExecReturned(i)

\* C4. Result completeness and sibling isolation: once every worker has been
\* spawned the batch is not aborted, and when run returns it returns exactly N
\* results, one per command, each the outcome of that command's own exec.
C4_ResultCompleteness ==
    /\ (children = N /\ rpc # "create_children") => rpc # "panicked"
    /\ rpc = "returned_ok" =>
          /\ Len(results) = N
          /\ \A i \in Workers :
                Cardinality({k \in 1..Len(results) : results[k] = res[i]}) = 1

-----------------------------------------------------------------------------
(* Command::exec *)

\* C5. Every call of exec returns exactly one CommandResult, one of Success,
\* Failed, Timeout and Error, on every path: a worker that is past exec holds a
\* result of one of the four kinds.
C5_ExecReturnsOneResult ==
    \A i \in Workers :
        wpc[i] \in {"send", "progress", "done", "panicked"} => res[i].kind \in Kinds

C7_ExitClassification ==
    \A i \in Workers :
        (ExecReturned(i) /\ Did(i, "Some") /\ Did(i, "captured")) =>
            /\ status[i] # NoStatus
            /\ res[i].kind \in {"Success", "Failed"}
            /\ res[i].kind = "Success" <=> status[i][1] = 0
            /\ res[i].kind = "Failed" <=> status[i][1] # 0
            /\ {"stdout", "run_time_ms"} \subseteq DOMAIN res[i]
            /\ res[i].command = commands[i]

\* A child exited with a non-zero status before its deadline, its output was
\* captured, and its worker delivered the result and ended.
C7_Witness ==
    \E i \in Workers :
        /\ ExecReturned(i) /\ Did(i, "Some") /\ Did(i, "captured")
        /\ status[i] = <<1>>
        /\ wpc[i] = "done"

\* C8. Timeout handling: when the deadline passed with the child still
\* running, exec ends by returning a Timeout result with a run time and no
\* stdout, after the kill and then the reap of the child, in that order.
C8_TimeoutHandling ==
    \A i \in Workers :
        (ExecEnded(i) /\ Did(i, "None")) =>
            /\ res[i].kind = "Timeout"
            /\ "run_time_ms" \in DOMAIN res[i] /\ "stdout" \notin DOMAIN res[i]
            /\ Before(i, "None", "kill") /\ Before(i, "kill", "reap")
            /\ Before(i, "reap", "result")
            /\ child[i] = "reaped"

\* C9. Spawn failure is data: when the child process cannot be spawned, exec
\* returns an Error result whose reason is the message of the cause, there is
\* no child process, and the thread goes on to send the result (it does not
\* panic in exec).
C9_SpawnFailureIsData ==
    \A i \in Workers :
        Did(i, "spawn_err") =>
            /\ res[i] = [kind |-> "Error", command |-> commands[i], reason |-> SpawnError.msg]
            /\ child[i] = "none"
            /\ ~ExecPanicked(i)
            /\ wpc[i] \in {"send", "progress", "done", "panicked"}

\* A worker whose spawn failed has delivered its Error result and ended.
C9_Witness ==
    \E i \in Workers :
        /\ Did(i, "spawn_err")
        /\ wpc[i] = "done"
        /\ \E k \in 1..Len(results) : results[k] = res[i]

\* C10. A failing kill or reap in terminate is reported as an Error result of
\* exec and the worker thread does not panic.
C10_TerminateFailureIsError ==
    \A i \in Workers :
        (Did(i, "kill_err") \/ Did(i, "reap_err")) =>
            /\ wpc[i] # "panicked"
            /\ res[i].kind = "Error"

\* C11. A child that exited and whose captured output is not valid UTF-8 still
\* gets the result its exit status asks for (Success for 0, Failed otherwise),
\* never Error.
C11_InvalidUtf8NotFatal ==
    \A i \in Workers :
        (Did(i, "invalid_utf8") /\ ExecReturned(i))
            => res[i] = exited_result(commands[i], status[i])

\* How often e occurs in the sequence s.
Count(s, e) == Cardinality({k \in 1..Len(s) : s[k] = e})

\* The progress units sent for command i so far.
ProgressUnits(i) == Count(evlog[i], "progress_sent")

\* C12. With a progress sender supplied, a run over N commands sends exactly N
\* progress units, one per command, whether the command ended as Success,
\* Failed, Timeout or Error: no command ever has more than one unit, a unit is
\* only sent for a command that has its result, every worker that ended
\* normally has sent its unit, and when run returns Ok each of the N commands
\* has exactly one; without a sender nothing is sent.
C12_ProgressCompleteness ==
    /\ \A i \in Workers :
         /\ ProgressUnits(i) <= 1
         /\ ProgressUnits(i) = 1 => (progress_tx /\ res[i].kind \in Kinds)
         /\ (progress_tx /\ wpc[i] = "done") => ProgressUnits(i) = 1
    /\ (rpc = "returned_ok" /\ progress_tx) =>
         /\ Len(ret.val) = N
         /\ \A i \in Workers : ProgressUnits(i) = 1

\* A run with a progress sender returned Ok, its command ended as Error, and
\* the unit of that command was sent.
C12_Witness ==
    /\ rpc = "returned_ok"
    /\ progress_tx
    /\ N = MaxExecCmds
    /\ \A i \in Workers : res[i].kind = "Error" /\ ProgressUnits(i) = 1

\* The runner has received the result of command i.
Received(i) == \E k \in 1..Len(results) : results[k].command.name = i

\* C13 as stated. The progress unit of every command is sent after its result is
\* ready and before the runner receives that result: a result the runner has
\* received has its unit sent already.
C13_ProgressBeforeReceive ==
    progress_tx =>
        \A i \in Workers :
            /\ ProgressUnits(i) >= 1 => ExecReturned(i)
            /\ Received(i) => ProgressUnits(i) = 1

\* C13, amended. The progress unit of every command is sent after its result is
\* ready and after that result has been sent to the runner, and before the
\* runner joins the worker of that command; the runner may receive the result
\* before the unit is sent.
C13_ProgressAfterResultSent ==
    progress_tx =>
        \A i \in Workers :
            /\ ProgressUnits(i) >= 1 =>
                 /\ ExecReturned(i)
                 /\ Before(i, "result_sent", "progress_sent")
            /\ joined >= i => ProgressUnits(i) = 1

\* The runner has received the result of a command and joined its worker, and
\* the unit of that command was sent after the result.
C13_Witness ==
    \E i \in Workers :
        /\ Received(i)
        /\ joined >= i
        /\ Before(i, "result_sent", "progress_sent")

\* C14. Progress is fire-and-forget: however many units lie unread, a worker at
\* the send of its result or of its progress unit can take that step, the
\* result is sent before the unit, and the receive, the join and the return of
\* run depend on the results and the workers only, so a consumer that never
\* reads holds up neither a result nor the return of run.
C14_ProgressFireAndForget ==
    /\ \A i \in Workers :
         /\ wpc[i] = "send" => ENABLED send_result(i)
         /\ wpc[i] = "progress" => (Did(i, "result_sent") /\ ENABLED send_progress(i))
    /\ (rpc = "wait_for_results" /\ Len(results) < children /\ channel # <<>>)
         => ENABLED wait_for_results_recv
    /\ (rpc = "wait_for_results" /\ Len(results) = children /\ joined < children
          /\ wpc[joined + 1] = "done")
         => ENABLED wait_for_results_join
    /\ (rpc = "wait_for_results" /\ Len(results) = children /\ joined = children)
         => ENABLED run

\* run returned Ok with all its results while every progress unit sent is
\* still unread by a consumer that holds the receiver.
C14_Witness ==
    /\ rpc = "returned_ok"
    /\ progress_tx
    /\ progress_rx_alive
    /\ N = MaxExecCmds
    /\ Len(ret.val) = N
    /\ progress_q = N

\* C15. The runner joins its workers only after it has received all results,
\* every worker it has joined has ended, and when run returns Ok every worker
\* thread it spawned has been joined and has ended.
C15_JoinBeforeReturn ==
    /\ joined >= 1 => (children = N /\ Len(results) = N)
    /\ \A i \in Workers : i <= joined => wpc[i] = "done"
    /\ rpc = "returned_ok" =>
         /\ children = N
         /\ joined = N
         /\ \A i \in Workers : wpc[i] = "done"

\* run returned Ok after spawning, receiving from and joining every worker.
C15_Witness ==
    /\ rpc = "returned_ok"
    /\ N = MaxExecCmds
    /\ joined = N
    /\ \A i \in Workers : wpc[i] = "done" /\ Received(i)

\* thread::Builder::spawn failed for command i.
SpawnFailed(i) == wpc[i] = "spawn_failed"

\* C16. run returns an error if and only if a worker thread could not be
\* spawned; it is then a single CommandFailed naming the command whose thread
\* could not be spawned, and no result list, not even a partial one, is
\* returned.
C16_ErrorIffSpawnFailure ==
    /\ ret.tag = "Err" <=> \E i \in Workers : SpawnFailed(i)
    /\ ret.tag = "Err" <=> rpc = "returned_err"
    /\ ret.tag = "Ok" <=> rpc = "returned_ok"
    /\ ret.tag = "Err" =>
         /\ Cardinality({i \in Workers : SpawnFailed(i)}) = 1
         /\ \A i \in Workers :
              SpawnFailed(i) => ret.err = CommandFailed(commands[i].name)
         /\ "val" \notin DOMAIN ret
    /\ ret.tag = "Ok" => (children = N /\ Len(ret.val) = N)

\* The thread of the last command could not be spawned and run returned
\* CommandFailed with the name of that command.
C16_Witness ==
    /\ N = MaxExecCmds
    /\ SpawnFailed(N)
    /\ children = N - 1
    /\ ret = Err(CommandFailed(N))

\* Worker i found the result channel or the progress channel disconnected.
FoundDisconnected(i) == Did(i, "result_disconnected") \/ Did(i, "progress_disconnected")

C18_OrchestratorSequence ==
    /\ Len(calls) <= 1 + repetitions
    /\ \A k \in 1..Len(calls) :
         /\ k = 1 => (calls[k].field = "hostinfos" /\ calls[k].commands = hostinfos)
         /\ k > 1 => (calls[k].field = "commands" /\ calls[k].commands = analysis_commands)
         /\ k < Len(calls) => calls[k].ret.tag = "Ok"
    /\ Len(command_results) <= repetitions
    /\ \A k \in 1..Len(command_results) : command_results[k] = calls[k + 1].ret.val
    /\ apc = "returned_ok" =>
         /\ Len(calls) = 1 + repetitions
         /\ report.val.hostinfo_results = calls[1].ret.val
         /\ Len(report.val.command_results) = repetitions
         /\ \A k \in 1..repetitions :
              report.val.command_results[k] = calls[k + 1].ret.val

\* Analysis::run returned its report after the invocation on a hostinfo and an
\* invocation on a command for each of at least two repetitions, the first two
\* of which ended with different results.
C18_Witness ==
    /\ apc = "returned_ok"
    /\ hostinfos # <<>>
    /\ analysis_commands # <<>>
    /\ repetitions >= 2
    /\ Len(calls) = 1 + repetitions
    /\ report.val.command_results[1] # report.val.command_results[2]

\* The list l has one result per command of cmds and its i-th element is the
\* result of the i-th command.
InInputOrder(l, cmds) ==
    /\ Len(l) = Len(cmds)
    /\ \A i \in 1..Len(cmds) : l[i].command = cmds[i]

\* C19. Every inner list of command_results has one result per command and its
\* i-th element is the result of the i-th command, whatever the other
\* repetitions did; hostinfo_results is in the order of the hostinfos.
C19_RepetitionIndependence ==
    /\ \A k \in 1..Len(command_results) :
         InInputOrder(command_results[k], analysis_commands)
    /\ apc \in {"commands", "returned_ok"} => InInputOrder(hostinfo_results, hostinfos)

\* C20. The report of Analysis::run carries the Context its caller passed,
\* unchanged, its repetitions and max_parallel_commands are the values the
\* Analysis was configured with, and every invocation of the runner was given
\* that same max_parallel_commands.
C20_ReportFrame ==
    /\ \A k \in 1..Len(calls) :
         calls[k].max_parallel_commands = max_parallel_commands
    /\ apc = "returned_ok" =>
         /\ report.val.context = context
         /\ report.val.repetitions = repetitions
         /\ report.val.max_parallel_commands = max_parallel_commands

\* Analysis::run returned its report for an Analysis left at the default
\* max_parallel_commands and set to two repetitions or more, each of which
\* invoked the runner.
C20_Witness ==
    /\ apc = "returned_ok"
    /\ repetitions >= 2
    /\ max_parallel_commands = DefaultMaxParallelCommands
    /\ context = "context_b"
    /\ Len(calls) = 1 + repetitions
    /\ report.val.context = "context_b"

\* C21. If an invocation of the runner made by Analysis::run, on the hostinfos
\* or in any repetition, returns an error, Analysis::run returns
\* RunAnalysisFailed wrapping that error, invokes the runner no more, and
\* returns no AnalysisReport; it returns an error in no other case.
C21_FatalPropagation ==
    /\ \A k \in 1..Len(calls) :
         calls[k].ret.tag = "Err" =>
             /\ k = Len(calls)
             /\ apc = "returned_err"
             /\ report = Err(RunAnalysisFailed(calls[k].ret.err))
             /\ "val" \notin DOMAIN report
    /\ apc = "returned_err" =>
         /\ calls # <<>>
         /\ calls[Len(calls)].ret.tag = "Err"
    /\ report.tag = "Err" <=> apc = "returned_err"

\* The runner returned CommandFailed in a repetition that was not the last:
\* Analysis::run returned RunAnalysisFailed and the repetitions left were not
\* run.
C21_Witness ==
    /\ apc = "returned_err"
    /\ Len(calls) >= 2
    /\ Len(calls) < 1 + repetitions
    /\ report = Err(RunAnalysisFailed(CommandFailed(1)))

\* The list l holds exactly one result for every command of cmds.
Complete(l, cmds) ==
    /\ Len(l) = Len(cmds)
    /\ \A i \in 1..Len(cmds) :
         Cardinality({j \in 1..Len(l) : l[j].command = cmds[i]}) = 1

\* C22. Results that are Failed, Timeout or Error never make Analysis::run
\* fail: as long as every invocation of the runner returned Ok, whatever the
\* kinds of its results, Analysis::run has not returned an error, once the last
\* repetition is in it can return, and the report it returns holds the
\* hostinfo results and all `repetitions` inner lists, each with one result
\* per command.
C22_OutcomesNeverEscalate ==
    /\ (\A k \in 1..Len(calls) : calls[k].ret.tag = "Ok") =>
         /\ apc \in {"hostinfos", "commands", "returned_ok"}
         /\ (apc = "commands" /\ Len(calls) = 1 + repetitions) => ENABLED analysis_run
    /\ apc = "returned_ok" =>
         /\ report.tag = "Ok"
         /\ Complete(report.val.hostinfo_results, hostinfos)
         /\ Len(report.val.command_results) = repetitions
         /\ \A k \in 1..repetitions :
              Complete(report.val.command_results[k], analysis_commands)

\* Analysis::run returned its report although the hostinfo and the command of
\* each of two repetitions ended as Error, Failed and Timeout.
C22_Witness ==
    /\ apc = "returned_ok"
    /\ repetitions = 2
    /\ hostinfos # <<>>
    /\ analysis_commands # <<>>
    /\ report.val.hostinfo_results[1].kind = "Error"
    /\ report.val.command_results[1][1].kind = "Failed"
    /\ report.val.command_results[2][1].kind = "Timeout"

\* The kinds of the results of the list l, in order.
KindsOf(l) == [k \in 1..Len(l) |-> l[k].kind]

\* C23. Running ok, bad and slow in that order, all three at once, yields the
\* result list [Success, Failed, Timeout] in exactly that order: whenever run
\* returns Ok with the result of slow received last, whichever of ok and bad
\* ended first, its list is the results of ok, bad and slow in that order.
C23_ScenarioOrder ==
    (rpc = "returned_ok" /\ ret.val[Len(ret.val)].command = commands[Len(commands)]) =>
        /\ KindsOf(ret.val) = <<"Success", "Failed", "Timeout">>
        /\ InInputOrder(ret.val, commands)

-----------------------------------------------------------------------------
(* Config and cli::main *)

\* The [[command]] table of the document that the command c was made of.
Declared(c) == toml.command[c.name]

\* The commands of any invocation of the runner.
Handed == UNION {RangeOf(calls[k].commands) : k \in 1..Len(calls)}

C25_ZeroRepetitionsRejected ==
    /\ (config # None /\ repetitions_of(opt, config[1]) = 0) =>
           (apc = "idle" /\ cpc \in {"start", "loaded", "generate_report", "returned_err"})
    /\ apc # "idle" => repetitions >= 1
    /\ report.tag = "Ok" => report.val.command_results # <<>>

\* C26: every invocation of the runner that main leads to is given a
\* max_parallel_commands of at least 1, whatever --parallel and
\* max_parallel_commands of [defaults] are.
C26_MaxParallelAtLeastOne ==
    \A k \in 1..Len(calls) : calls[k].max_parallel_commands >= 1

\* The names of the commands the Config c defines.
Defined(c) == {c.commands[k].name : k \in 1..Len(c.commands)}

\* The default profile of c is one of its profiles, and every name a profile
\* or hostinfo lists is the name of a command of c.
WellReferenced(c) ==
    /\ \E k \in 1..Len(c.profiles) : c.profiles[k].name = c.defaults.profile
    /\ \A k \in 1..Len(c.profiles) :
         \A j \in 1..Len(c.profiles[k].commands) : c.profiles[k].commands[j] \in Defined(c)
    /\ c.hostinfo # None =>
         \A j \in 1..Len(c.hostinfo[1].commands) : c.hostinfo[1].commands[j] \in Defined(c)

\* C27: validate returns Ok exactly for a Config whose default profile is
\* defined and whose profiles and hostinfo list names of defined commands only;
\* for any other it returns InvalidConfig, main returns that error, and the
\* runner is never invoked.
C27_ValidateExactly ==
    config # None =>
        /\ validate(config[1]).tag = "Ok" <=> WellReferenced(config[1])
        /\ ~WellReferenced(config[1]) =>
             /\ validate(config[1]).tag = "Err"
             /\ validate(config[1]).err.error = "InvalidConfig"
             /\ apc = "idle" /\ calls = <<>> /\ report = NoReturn
             /\ cpc \in {"loaded", "returned_err"}
             /\ cpc = "returned_err" => cli_ret = Err(validate(config[1]).err)
        /\ (cpc \in {"generate_report", "analysis_run", "returned_ok"} \/ apc # "idle") =>
             WellReferenced(config[1])

\* main returned the error of a Config that is sound but for a name of
\* hostinfo that no command has.
C27_Witness ==
    /\ cpc = "returned_err"
    /\ config # None
    /\ cli_ret = Err(InvalidConfig("hostinfo command not found"))
    /\ validate_default_profile(config[1]).tag = "Ok"
    /\ validate_profiles_commands(config[1]).tag = "Ok"
    /\ config[1].commands # <<>>
    /\ calls = <<>>

-----------------------------------------------------------------------------
(* Empty batches *)

-----------------------------------------------------------------------------
(* Command::args *)

\* C29: args on sh -c followed by a text in single quotes, with spaces and
\* double quotes in it, or by a text in double quotes, with spaces in it,
\* returns Ok with exactly 3 arguments, the third of them the text; on
\* /bin/sleep 5 it returns Ok with exactly 2.
C29_QuotedSegmentIsOneArgument ==
    argv # NoReturn =>
        /\ \A q \in Quotes : \A t \in TextsIn(q) :
             line = QuotedLine(q, t) =>
                 /\ argv.tag = "Ok"
                 /\ Len(argv.val) = 3
                 /\ argv.val = <<sh, dash_c, t>>
        /\ line = sleep \o <<Space, "5">> =>
             /\ argv.tag = "Ok"
             /\ Len(argv.val) = 2
             /\ argv.val = <<sleep, <<"5">>>>

\* args returned 3 arguments for a text in single quotes with a space and a
\* double quote in it.
C29_Witness ==
    /\ argv # NoReturn
    /\ \E t \in TextsIn(SingleQuote) :
         /\ line = QuotedLine(SingleQuote, t)
         /\ Space \in RangeOf(t)
         /\ DoubleQuote \in RangeOf(t)
    /\ argv.tag = "Ok"
    /\ Len(argv.val) = 3

-----------------------------------------------------------------------------
(* The commands of a run *)

\* C30: no step of a run changes the list of commands, and once run has
\* returned Ok the command of the i-th result is the i-th command of the list,
\* equal to it in every field.
C30_CommandsNeverMutated ==
    /\ [][commands' = commands]_vars
    /\ [](rpc = "returned_ok" =>
            /\ Len(ret.val) = Len(commands)
            /\ \A i \in 1..Len(ret.val) : ret.val[i].command = commands[i])

-----------------------------------------------------------------------------
(* Cancellation *)

\* exec of command i called p.kill(), whether or not the call succeeded.
KillCalled(i) == Did(i, "kill") \/ Did(i, "kill_err")

\* C31: the child of a command is sent a kill only by the exec of that command
\* and only after wait_timeout found its deadline passed with the child still
\* running; a child whose exit wait_timeout has seen is never sent one.
C31_OnlyOwnTimeoutKills ==
    \A i \in Workers :
        /\ KillCalled(i) => (wait[i] = "None" /\ Did(i, "None"))
        /\ wait[i] = "Some" => ~KillCalled(i)
        /\ child[i] = "killed" => KillCalled(i)

-----------------------------------------------------------------------------
(* Termination of run *)

\* run has returned, Ok or Err.
Returned == rpc \in {"returned_ok", "returned_err"}

-----------------------------------------------------------------------------
(* A thread that cannot be spawned *)

\* C33: once run has returned the error of a thread that could not be spawned,
\* every worker spawned before it has ended without a panic, its child process
\* is not running, and none of them has found the result receiver dropped.
C33_SpawnFailureJoins ==
    rpc = "returned_err" =>
        \A i \in Workers :
            /\ wpc[i] \in {"unspawned", "spawn_failed", "done"}
            /\ child[i] # "running"
            /\ ~Did(i, "result_disconnected")

-----------------------------------------------------------------------------
(* Progress units and the return of run *)

\* C34: once run has returned Ok with a progress channel, every worker has
\* sent its unit and has ended, and none can send a unit any more.
C34_UnitsSentBeforeReturn ==
    (rpc = "returned_ok" /\ progress_tx) =>
        \A i \in Workers :
            /\ ProgressUnits(i) = 1
            /\ wpc[i] = "done"
            /\ ~ENABLED send_progress(i)
            /\ Before(i, "result_sent", "progress_sent")

\* run returned Ok and the unit of its command still lies in the progress
\* channel.
C34_Witness ==
    /\ rpc = "returned_ok"
    /\ progress_tx
    /\ N = 1
    /\ progress_rx_alive
    /\ progress_q = 1

\* The thread "Progress" receives no more: it has finished, has panicked, or
\* has ended with the process.
ProgressStopped == pb_pc \in {"finished", "panicked", "killed"}

\* analysis.run has returned Ok to a generate_report whose thread "Progress"
\* was spawned.
ProgressedRun == apc = "returned_ok" /\ pb_pc \notin {"none", "spawn_failed"}

\* C35: the thread "Progress" expects hostinfo.len() + repetitions *
\* commands.len() units, which are the units the workers have sent when
\* analysis.run returns Ok; after such a run the thread goes on receiving
\* until it has its last expected unit, and finishes with all of them; and no
\* invocation that would send a unit is left once the thread receives no more.
C35_ConsumerReceivesEveryUnit ==
    /\ ProgressedRun =>
          /\ pb_expected = Len(hostinfos) + repetitions * Len(analysis_commands)
          /\ pb_sent = pb_expected
          /\ pb_received + pb_q = pb_expected
          /\ pb_received < pb_expected => pb_pc = "recv"
          /\ pb_pc = "finished" => pb_received = pb_expected
    /\ ProgressStopped =>
          /\ ~(apc = "hostinfos" /\ hostinfos # <<>>)
          /\ ~(apc = "commands" /\ Len(command_results) < repetitions
                                /\ analysis_commands # <<>>)

\* No two commands of l have the same name.
UniqueNames(l) == \A j, k \in 1..Len(l) : l[j].name = l[k].name => j = k

\* C36: the commands generate_report hands to the Analysis, made by
\* create_commands from a validated Config, a profile and the +name and -name
\* filters, contain each command name at most once.
C36_CommandNamesUnique ==
    cpc = "analysis_run" => UniqueNames(analysis_commands)

\* What exec returns for a command line that cannot be split.
SplitFailure(self) ==
    [kind |-> "Error", command |-> self,
     reason |-> "failed to split command into arguments"]

\* C37: a command line with mismatched quotes is never spawned: exec makes
\* no capture file and no child process for it and returns the Error result
\* with the reason "failed to split command into arguments", which the worker
\* sends and run returns like any other result.
C37_MismatchedQuotesNotSpawned ==
    \A i \in Workers :
        commands[i].command = "mismatched" =>
            /\ child[i] = "none"
            /\ RangeOf(evlog[i]) \subseteq
                   {"split_err", "result_sent", "result_disconnected",
                    "progress_sent", "progress_disconnected"}
            /\ ExecReturned(i) => res[i] = SplitFailure(commands[i])
            /\ ~ExecPanicked(i)
            /\ rpc = "returned_ok" =>
                   \E k \in 1..Len(ret.val) : ret.val[k] = SplitFailure(commands[i])

C37_Witness ==
    /\ rpc = "returned_ok"
    /\ N = 1
    /\ commands[1].command = "mismatched"
    /\ Did(1, "split_err")
    /\ ret.val = <<SplitFailure(commands[1])>>

\* The run time of the exec that is followed was taken.
Measured == run_time_ms # None

\* C38: run_time_ms is taken when the wait has returned and before terminate
\* kills; it is not a negative number of milliseconds converted to u64; and
\* with a Timeout result it is at least timeout_sec * 1000.
C38_RunTimeSane ==
    /\ tpc \in {"start", "create", "wait"} => ~Measured
    /\ tpc = "terminate" => Measured
    /\ Measured => run_time_ms[1] < 2 ^ (U64Bits - 1)
    /\ time_res = "Timeout" => run_time_ms[1] >= deadline_ms

\* l is made of exactly the commands of cs with a name in names, in the order
\* they have in cs.
SelectionOf(l, cs, names) ==
    \E f \in [1..Len(l) -> 1..Len(cs)] :
        /\ \A j, k \in 1..Len(l) : j < k => f[j] < f[k]
        /\ \A k \in 1..Len(l) : l[k] = cs[f[k]]
        /\ \A j \in 1..Len(cs) : cs[j].name \in names <=> \E k \in 1..Len(l) : f[k] = j

\* C39: for the Config main has loaded, commands_for_profile gives for each
\* of its profiles exactly the defined commands the profile names, in the
\* order of their definition whatever the order of the names in the profile;
\* commands_for_hostinfo does so for the hostinfo section and gives the empty
\* list without one; and these are the hostinfos generate_report hands on.
C39_CommandsInDefinitionOrder ==
    config # None =>
        /\ \A p \in RangeOf(config[1].profiles) :
              SelectionOf(commands_for_profile(config[1], p), config[1].commands,
                          RangeOf(p.commands))
        /\ config[1].hostinfo = None => commands_for_hostinfo(config[1]) = <<>>
        /\ config[1].hostinfo # None =>
              SelectionOf(commands_for_hostinfo(config[1]), config[1].commands,
                          RangeOf(config[1].hostinfo[1].commands))
        /\ cpc = "analysis_run" =>
              /\ hostinfos = commands_for_hostinfo(config[1])
              /\ opt.filter_commands = <<>> =>
                    analysis_commands =
                        commands_for_profile(config[1],
                                             profile(config[1],
                                                     profile_name_of(opt, config[1])).val)

C39_Witness ==
    /\ cpc = "analysis_run"
    /\ opt.filter_commands = <<>>
    /\ profile(config[1], profile_name_of(opt, config[1])).val.commands = <<2, 1>>
    /\ Len(analysis_commands) = 2
    /\ analysis_commands[1].name = 1
    /\ analysis_commands[2].name = 2
    /\ analysis_commands = config[1].commands

====
